---- MODULE Spec2Model ----
(***************************************************************************)
(* Model of the provider registry of llm-proxy (src/src/providers):        *)
(* ProviderFactory with its class-level registry, its per-instance adapter *)
(* cache and shared HTTP client, the adapters' construction and health     *)
(* probes, and the API endpoints that resolve a model to an adapter.       *)
(*                                                                         *)
(* Python strings that the code inspects (model names) are sequences of    *)
(* one-character strings, so that lower(), startswith() and `in` are       *)
(* computed and not assumed.                                               *)
(***************************************************************************)
EXTENDS Integers, Sequences, FiniteSets, TLC

----------------------------------------------------------------------------
(* Bounds of the model *)

\* at most this many adapters are ever constructed in one behaviour
MaxInstances == 2

\* an upstream stream delivers at most this many events
MaxEvents == 3

\* list_models calls in flight at the same time
MaxCalls == 2

\* request handlers running on the event loop at the same time
MaxHandlers == 2

----------------------------------------------------------------------------
(* Python string operations on character sequences *)

UpperAlpha == <<"A","B","C","D","E","F","G","H","I","J","K","L","M","N","O","P","Q","R","S","T","U","V","W","X","Y","Z">>
LowerAlpha == <<"a","b","c","d","e","f","g","h","i","j","k","l","m","n","o","p","q","r","s","t","u","v","w","x","y","z">>

\* str.lower() on one character
LowerChar(c) ==
    IF \E i \in 1..Len(UpperAlpha) : UpperAlpha[i] = c
    THEN LowerAlpha[CHOOSE i \in 1..Len(UpperAlpha) : UpperAlpha[i] = c]
    ELSE c

\* str.lower()
Lower(s) == [i \in 1..Len(s) |-> LowerChar(s[i])]

\* s.startswith(p)
StartsWith(s, p) ==
    /\ Len(p) <= Len(s)
    /\ \A i \in 1..Len(p) : s[i] = p[i]

\* sub in s
Contains(s, sub) ==
    \E k \in 0..(Len(s) - Len(sub)) : \A i \in 1..Len(sub) : s[k + i] = sub[i]

----------------------------------------------------------------------------
(* Model names used as inputs and the literals of the code *)

m_gpt_4 == <<"g","p","t","-","4">>
m_GPT_4o == <<"G","P","T","-","4","o">>
m_gpt_4o == <<"g","p","t","-","4","o">>
m_gpt_3_5_turbo == <<"g","p","t","-","3",".","5","-","t","u","r","b","o">>
m_claude_3_5_sonnet == <<"c","l","a","u","d","e","-","3","-","5","-","s","o","n","n","e","t">>
m_claude_3_haiku == <<"c","l","a","u","d","e","-","3","-","h","a","i","k","u">>
m_pre_claude == <<"p","r","e","-","c","l","a","u","d","e">>
m_o1_mini == <<"o","1","-","m","i","n","i">>
m_text_embedding_ada_002 == <<"t","e","x","t","-","e","m","b","e","d","d","i","n","g","-","a","d","a","-","0","0","2">>
m_text_embedding_3_small == <<"t","e","x","t","-","e","m","b","e","d","d","i","n","g","-","3","-","s","m","a","l","l">>
m_text_embedding_3_large == <<"t","e","x","t","-","e","m","b","e","d","d","i","n","g","-","3","-","l","a","r","g","e">>
m_my_text_embedding == <<"m","y","-","t","e","x","t","-","e","m","b","e","d","d","i","n","g">>
m_my_embedding == <<"m","y","-","e","m","b","e","d","d","i","n","g">>
m_ada_embedding == <<"a","d","a","-","e","m","b","e","d","d","i","n","g">>
m_unknown_model == <<"u","n","k","n","o","w","n","-","m","o","d","e","l">>

s_claude == <<"c","l","a","u","d","e">>
s_gpt == <<"g","p","t">>
s_o1 == <<"o","1">>
s_embedding == <<"e","m","b","e","d","d","i","n","g">>
s_ada == <<"a","d","a">>
s_text_embedding == <<"t","e","x","t","-","e","m","b","e","d","d","i","n","g">>

\* the model names requests are made with
Models ==
    { m_gpt_4, m_GPT_4o, m_claude_3_5_sonnet, m_pre_claude, m_o1_mini,
      m_text_embedding_ada_002, m_text_embedding_3_small, m_my_text_embedding,
      m_my_embedding, m_ada_embedding, m_unknown_model }

\* the list get_supported_models probes with _auto_detect_provider
AutoModels ==
    << m_gpt_4o, m_gpt_4, m_gpt_3_5_turbo, m_claude_3_5_sonnet, m_claude_3_haiku >>

\* the literal list of the last branch of _auto_detect_provider
AzureEmbeddingList ==
    { m_text_embedding_ada_002, m_text_embedding_3_small, m_text_embedding_3_large }

\* model names given to the adapters directly: an entry of Claude's list, the
\* same in another case, and two names contained in an entry
m_claude_3_5_sonnet_20241022 ==
    <<"c","l","a","u","d","e","-","3","-","5","-","s","o","n","n","e","t","-","2","0","2","4","1","0","2","2">>
m_CLAUDE_3_OPUS_20240229 ==
    <<"C","L","A","U","D","E","-","3","-","O","P","U","S","-","2","0","2","4","0","2","2","9">>
m_claude == <<"c","l","a","u","d","e">>

AdapterModels ==
    { m_gpt_4, m_GPT_4o, m_claude_3_5_sonnet_20241022, m_CLAUDE_3_OPUS_20240229,
      m_claude_3_5_sonnet, m_claude, m_text_embedding_3_small, m_unknown_model }

AllModels == Models \cup { AutoModels[i] : i \in 1..Len(AutoModels) } \cup AdapterModels

----------------------------------------------------------------------------
(* Provider names and classes *)

\* names get_provider / create_provider / register_provider are called with
Names == { "claude", "openai", "azure", "mock", "unknown" }

\* iteration order of the registry dict (insertion order)
NameOrder == << "claude", "openai", "azure", "mock", "unknown" >>

\* the abstract methods of BaseProvider
AbstractMethods ==
    { "list_models", "chat_completion", "chat_completion_stream",
      "chat_completion_stream_fast", "create_embeddings", "is_model_supported",
      "health_check" }

\* classes that are registered or offered to register_provider:
\*   base       issubclass(cls, BaseProvider)
\*   implements the abstract methods the class defines
\*   init       the constructor: what it requires of the config
Classes == { "ClaudeProvider", "OpenAIProvider", "AzureOpenAIProvider",
             "MockProvider", "CompleteProvider", "str" }

ClassInfo(cls) ==
    CASE cls = "ClaudeProvider" ->
            [ base |-> TRUE, implements |-> AbstractMethods, init |-> "api_key" ]
      [] cls = "OpenAIProvider" ->
            [ base |-> TRUE, implements |-> AbstractMethods, init |-> "api_key" ]
      [] cls = "AzureOpenAIProvider" ->
            [ base |-> TRUE,
              implements |-> AbstractMethods \ { "chat_completion_stream_fast" },
              init |-> "api_key+endpoint" ]
      [] cls = "MockProvider" ->
            [ base |-> TRUE,
              implements |-> AbstractMethods \ { "chat_completion_stream_fast" },
              init |-> "none" ]
      [] cls = "CompleteProvider" ->
            [ base |-> TRUE, implements |-> AbstractMethods, init |-> "none" ]
      [] OTHER ->
            [ base |-> FALSE, implements |-> {}, init |-> "none" ]

\* the registry the class ProviderFactory starts with ("" = name not registered)
BuiltinProviders ==
    [ n \in Names |->
        CASE n = "claude" -> "ClaudeProvider"
          [] n = "openai" -> "OpenAIProvider"
          [] n = "azure" -> "AzureOpenAIProvider"
          [] OTHER -> "" ]

----------------------------------------------------------------------------
(* Configuration *)

\* one entry of config['providers']:
\*   shape   "missing" (no key), "null" (key with value None), "dict"
\*   enabled "absent" | "true" | "false"
\*   api_key "absent" | "empty" (key present, value '') | "set"
\*   endpoint "absent" | "set"
Entry(shape, enabled, api_key, endpoint) ==
    [ shape |-> shape, enabled |-> enabled, api_key |-> api_key, endpoint |-> endpoint ]

E_missing == Entry("missing", "absent", "absent", "absent")
E_null == Entry("null", "absent", "absent", "absent")
E_full == Entry("dict", "true", "set", "set")
E_disabled == Entry("dict", "false", "set", "set")
E_disabled_only == Entry("dict", "false", "absent", "absent")
E_default == Entry("dict", "absent", "set", "set")
E_nokey == Entry("dict", "true", "absent", "set")
E_emptykey == Entry("dict", "true", "empty", "set")
E_noendpoint == Entry("dict", "true", "set", "absent")

\* dict.get(name, {}) on config['providers']: a missing key reads as {}
ProviderConfigOf(cfg, name) ==
    IF cfg.providers[name].shape = "missing"
    THEN Entry("dict", "absent", "absent", "absent")
    ELSE cfg.providers[name]

\* provider_config.get('enabled', default)
GetEnabled(entry, default) ==
    IF entry.enabled = "absent" THEN default ELSE entry.enabled = "true"

\* the configuration of the unit tests (test_provider_factory.py, factory_config)
BaseProviders ==
    [ claude |-> E_full, openai |-> E_full, azure |-> E_full, mock |-> E_missing,
      unknown |-> E_missing ]

\* the entries a configuration may hold for each provider name
EntriesOf(n) ==
    CASE n = "claude" -> { E_missing, E_null, E_full, E_disabled, E_disabled_only,
                          E_default, E_nokey, E_emptykey }
      [] n = "openai" -> { E_null, E_full, E_disabled }
      [] n = "azure" -> { E_null, E_full, E_disabled, E_noendpoint, E_nokey }
      [] n = "mock" -> { E_missing, E_full }
      [] OTHER -> { E_missing }

\* the provider sections: the tests' configuration with one entry replaced,
\* and the configurations of TestProviderFactoryConfigVariations
ProviderSections ==
    { [ BaseProviders EXCEPT ![n] = e ] : n \in Names, e \in UNION { EntriesOf(k) : k \in Names } }
    \cup { [ n \in Names |-> E_missing ],
           [ n \in Names |-> IF n \in { "claude", "openai", "azure" }
                             THEN E_disabled_only ELSE E_missing ] }

\* "" = the model has no entry in model_mapping
NoMapping == [ m \in AllModels |-> "" ]

\* the mapping of the unit tests, and one that repoints names against the
\* auto-detection rules
TestMapping ==
    [ NoMapping EXCEPT ![m_gpt_4o] = "openai", ![m_claude_3_5_sonnet] = "claude",
                       ![m_gpt_4] = "azure" ]

OtherMapping ==
    [ NoMapping EXCEPT ![m_gpt_4] = "claude", ![m_unknown_model] = "openai",
                       ![m_claude_3_5_sonnet] = "openai" ]

Configs ==
    { [ providers |-> p, model_mapping |-> TestMapping ] :
        p \in { q \in ProviderSections :
                  \A n \in Names : q[n] \in EntriesOf(n) \/ q[n] = E_missing
                                   \/ q[n] = E_disabled_only } }
    \cup { [ providers |-> BaseProviders, model_mapping |-> OtherMapping ] }

----------------------------------------------------------------------------
(* The upstream services *)

\* what the upstream does with one call: answers with a status, or the
\* connection fails
Response(status) == [ kind |-> "response", status |-> status ]
ConnectionError == [ kind |-> "error", status |-> 0 ]

\* a 2xx answer whose body cannot be used: not JSON, or not of the expected shape
Garbled == [ kind |-> "garbled", status |-> 200 ]

Upstream == { Response(200), Response(204), Response(500), ConnectionError }

Is2xx(up) == up.kind = "response" /\ up.status \in 200..299

\* every provider's upstream answers the same
AllAnswer(up) == [ n \in Names |-> up ]

----------------------------------------------------------------------------
(* State *)

VARIABLES
    config,               \* ProviderFactory.config
    _providers,           \* ProviderFactory._providers: name -> class ("" = absent)
    _provider_instances,  \* ProviderFactory._provider_instances: name -> adapter id (0 = absent)
    http_client,          \* the shared httpx.AsyncClient: is_closed, number of aclose() calls
    adapters,             \* every adapter constructed so far; the index is its identity
    created,              \* history: adapters constructed per name since the last close()
    last,                 \* the call being answered: operation, argument and outcome
    acall,                \* the adapter method call being answered, with what it sent upstream
    stream,               \* the chat_completion_stream generator being consumed
    clock,                \* time.time(), in seconds
    calls,                \* the list_models calls in flight on the adapters, by caller
    handlers              \* the request handlers on the event loop

vars == << config, _providers, _provider_instances, http_client, adapters, created, last,
           acall, stream, clock, calls, handlers >>

\* the factory and what it holds
fvars == << config, _providers, _provider_instances, http_client, adapters, created, last >>

\* the calls made on one adapter directly
avars == << acall, stream, clock, calls, handlers >>

\* the clock and the cached calls in flight
cvars == << clock, calls, handlers >>

\* outcome of a call: a returned adapter, or a raised exception
\*   exc     exception type
\*   fmt     the message with {} for the formatted value, arg the value
\*   cause   str(e) of a wrapped exception
Return(inst) ==
    [ kind |-> "return", inst |-> inst, value |-> "", exc |-> "", fmt |-> "",
      arg |-> << >>, cause |-> "", status_code |-> 0, provider |-> "" ]

\* a returned bool ("True" / "False")
Value(v) ==
    [ kind |-> "return", inst |-> 0, value |-> v, exc |-> "", fmt |-> "",
      arg |-> << >>, cause |-> "", status_code |-> 0, provider |-> "" ]

Raise(exc, fmt, arg, cause, status_code, provider) ==
    [ kind |-> "raise", inst |-> 0, value |-> "", exc |-> exc, fmt |-> fmt, arg |-> arg,
      cause |-> cause, status_code |-> status_code, provider |-> provider ]

\* the HTTP answer of an endpoint: the status and, for an error, the detail
\* (the message of the exception e it answers for)
Http(status_code, e) ==
    [ kind |-> "http", inst |-> 0, value |-> "", exc |-> e.exc, fmt |-> e.fmt,
      arg |-> e.arg, cause |-> e.cause, status_code |-> status_code, provider |-> "" ]

\* ProviderError(message, status_code=500, provider=None)
DefaultStatus == 500

ProviderError(fmt, arg, cause) ==
    Raise("ProviderError", fmt, arg, cause, DefaultStatus, "")

NoReport == [ n \in Names |-> "absent" ]
NoModels == [ m \in AllModels |-> "" ]

\* the record of a call that returned or raised res
\*   report  the dict a listing or health_check_all returned
\*   models  the dict get_supported_models returned
\*   ups     what the upstream of each provider did during the call
\*   data    the ids of the models GET /v1/models answered with
\*   fresh   the providers whose cached list_models() was younger than the ttl
\*   served  the adapter a chat endpoint handed the request to (0 = none)
Call(op, target, res) ==
    [ op |-> op, target |-> target, res |-> res, report |-> NoReport,
      models |-> NoModels, ups |-> AllAnswer(ConnectionError), data |-> << >>,
      fresh |-> {}, served |-> 0 ]

\* no call is being answered
Idle == Call("idle", << >>, Return(0))

\* calls reach the factory one at a time: the next one starts when the
\* outcome of the previous one has been handed to its caller
Ready == last.op = "idle"

\* an Optional[int] / Optional[float] field of a request or of a payload;
\* floats are counted in tenths (temperature 0.7 is 7)
None == [ set |-> FALSE, v |-> 0 ]
Some(v) == [ set |-> TRUE, v |-> v ]

\* ChatMessage
Msg(role, content) == [ role |-> role, content |-> content ]

\* ChatRequest
ChatRequest(model, messages, max_tokens, temperature, top_p, frequency_penalty, presence_penalty) ==
    [ model |-> model, messages |-> messages, max_tokens |-> max_tokens,
      temperature |-> temperature, top_p |-> top_p,
      frequency_penalty |-> frequency_penalty, presence_penalty |-> presence_penalty ]

\* what an adapter transmits upstream for a chat request, or the dict
\* _convert_request_to_claude_format returns: a field that is not sent is
\* None, system = "" when no system field is sent
Payload(model, messages, system, max_tokens, temperature, top_p, frequency_penalty, presence_penalty) ==
    [ model |-> model, messages |-> messages, system |-> system,
      max_tokens |-> max_tokens, temperature |-> temperature, top_p |-> top_p,
      frequency_penalty |-> frequency_penalty, presence_penalty |-> presence_penalty ]

NoRequest == ChatRequest(<< >>, << >>, None, None, None, None, None)

\* EmbeddingRequest.input: one text (scalar) or a list of texts
EmbeddingInput(scalar, texts) == [ scalar |-> scalar, texts |-> texts ]
NoInput == EmbeddingInput(FALSE, << >>)

\* an entry of the data of an embeddings answer
EmbeddingEntry(index) == [ object |-> "embedding", embedding |-> "vector", index |-> index ]

\* the record of a call of an adapter method
\*   req      the ChatRequest given (chat_completion, the conversion)
\*   res      what the call returned or raised
\*   sent     the payloads of the upstream calls issued, in order
\*   payload  the dict _convert_request_to_claude_format returned
\*   ids      the ids of the ModelInfo list that list_models returned
\*   input    the input of the EmbeddingRequest given (create_embeddings)
\*   data     the data of the EmbeddingResponse returned
ACall(op, cls, model, res) ==
    [ op |-> op, cls |-> cls, model |-> model, req |-> NoRequest, res |-> res,
      sent |-> << >>, payload |-> << >>, ids |-> << >>, up |-> << >>,
      input |-> NoInput, data |-> << >> ]

\* no adapter call is being answered
NoCall == ACall("idle", "", << >>, Return(0))

\* a chat_completion_stream generator and its upstream
\*   state    idle, initial (Claude: first chunk yielded, upstream not yet
\*            called), open (reading the upstream), after_loop (Claude: the
\*            event loop is left), done (generator exhausted), failed (raised)
\*   events   the events / chunks / lines the upstream delivers, in order
\*   ending   how the upstream ends after them: eof, status_error,
\*            connection_error
\*   pos      the number of upstream events read so far
\*   now      time.time(); message_id is read from it once
\*   out      the chunks yielded so far
\*   error    the exception the generator raised
NoStream ==
    [ state |-> "idle", cls |-> "", model |-> << >>, events |-> << >>, pos |-> 0,
      ending |-> "eof", now |-> 0, message_id |-> 0, out |-> << >>,
      upstream_calls |-> 0, error |-> Return(0) ]

\* a call of a method wrapped by @async_cache, as its caller sees it
\*   state         none, awaiting (the wrapped method runs), hit (answered
\*                 from the cache), returned, raised
\*   inst          the adapter it is made on
\*   current_time  time.time() read when the wrapper was entered
\*   ids           the ids of the list it returned
\*   upstream_calls  the upstream calls it issued
NoListCall ==
    [ state |-> "none", inst |-> 0, current_time |-> 0, ids |-> << >>,
      upstream_calls |-> 0 ]

\* a request handler (a coroutine of the endpoints) as the event loop sees it
\*   state   idle, resolving (the request is read, get_provider not yet
\*           called), serving (awaiting the adapter it got), refused
\*   name    the provider name it asks the registry for
\*   inst    the adapter get_provider returned to it
\*   first   no instance was cached for name when the request came in
NoHandler == [ state |-> "idle", name |-> "", inst |-> 0, first |-> FALSE ]

Init ==
    /\ clock = 0
    /\ handlers = [ h \in 1..MaxHandlers |-> NoHandler ]
    /\ calls = [ c \in 1..MaxCalls |-> NoListCall ]
    /\ config \in Configs
    /\ _providers = BuiltinProviders
    /\ _provider_instances = [ n \in Names |-> 0 ]
    /\ http_client = [ is_closed |-> FALSE, aclose_calls |-> 0 ]
    /\ adapters = << >>
    /\ created = [ n \in Names |-> 0 ]
    /\ last = Idle
    /\ acall = NoCall
    /\ stream = NoStream

----------------------------------------------------------------------------
(* Construction of adapters *)

\* provider_class(provider_config, self.http_client): instantiating a class
\* that leaves an abstract method of BaseProvider undefined raises TypeError
\* before __init__ runs; then __init__ checks the credentials it requires
\* (`not self.api_key` is true for a missing and for an empty key)
Construct(cls, entry) ==
    LET info == ClassInfo(cls) IN
    IF ~info.base \/ AbstractMethods \ info.implements # {}
    THEN [ ok |-> FALSE, exc |-> "TypeError",
           msg |-> "Can't instantiate abstract class" ]
    ELSE IF info.init \in { "api_key", "api_key+endpoint" } /\ entry.api_key # "set"
    THEN [ ok |-> FALSE, exc |-> "ProviderError", msg |-> "API key is required" ]
    ELSE IF info.init = "api_key+endpoint" /\ entry.endpoint # "set"
    THEN [ ok |-> FALSE, exc |-> "ProviderError", msg |-> "endpoint is required" ]
    ELSE [ ok |-> TRUE, exc |-> "", msg |-> "" ]

\* a freshly constructed adapter: BaseProvider.__init__ keeps a reference to
\* the factory's HTTP client
\* (list_models_cache: the entry @async_cache keeps on the instance for
\* list_models(), << >> = none, else << ids >>; list_models_cache_timestamp:
\* the timestamp kept with it, followed where the clock is)
NewAdapter(cls, entry) ==
    [ cls |-> cls, http_client |-> "shared", close_calls |-> 0,
      list_models_cache |-> << >>, list_models_cache_timestamp |-> 0 ]

\* the part of the factory state that get_provider and create_provider change
FactoryState == [ inst |-> _provider_instances, ads |-> adapters, cr |-> created ]

\* ProviderFactory.create_provider: outcome and the adapters after the call
CreateProvider(fs, provider_name, provider_config) ==
    IF _providers[provider_name] = ""
    THEN [ fs |-> fs,
           res |-> ProviderError("Unknown provider: {}", << provider_name >>, "") ]
    ELSE LET c == Construct(_providers[provider_name], provider_config) IN
         IF c.ok
         THEN [ fs |-> [ fs EXCEPT !.ads = Append(fs.ads,
                             NewAdapter(_providers[provider_name], provider_config)) ],
                res |-> Return(Len(fs.ads) + 1) ]
         ELSE [ fs |-> fs,
                res |-> ProviderError("Failed to create {} provider: {}",
                                      << provider_name >>, c.msg) ]

\* get_provider without the lookup in _provider_instances: every call constructs
GetProvider_NoCache(fs, provider_name) ==
    IF config.providers[provider_name].shape = "null"
    THEN [ fs |-> fs,
           res |-> Raise("AttributeError",
                         "'NoneType' object has no attribute 'get'", << >>, "", 0, "") ]
    ELSE IF ~GetEnabled(ProviderConfigOf(config, provider_name), TRUE)
    THEN [ fs |-> fs,
           res |-> ProviderError("Provider {} is disabled", << provider_name >>, "") ]
    ELSE LET c == CreateProvider(fs, provider_name,
                                 ProviderConfigOf(config, provider_name)) IN
         IF c.res.kind = "return"
         THEN [ fs |-> [ c.fs EXCEPT !.inst[provider_name] = c.res.inst,
                                     !.cr[provider_name] = @ + 1 ],
                res |-> c.res ]
         ELSE c

\* get_provider without the test of 'enabled'
GetProvider_IgnoresEnabled(fs, provider_name) ==
    IF fs.inst[provider_name] = 0
    THEN IF config.providers[provider_name].shape = "null"
         THEN [ fs |-> fs,
                res |-> Raise("AttributeError",
                              "'NoneType' object has no attribute 'get'", << >>, "",
                              0, "") ]
         ELSE LET c == CreateProvider(fs, provider_name,
                                      ProviderConfigOf(config, provider_name)) IN
              IF c.res.kind = "return"
              THEN [ fs |-> [ c.fs EXCEPT !.inst[provider_name] = c.res.inst,
                                          !.cr[provider_name] = @ + 1 ],
                     res |-> c.res ]
              ELSE c
    ELSE [ fs |-> fs, res |-> Return(fs.inst[provider_name]) ]

\* ProviderFactory.get_provider
GetProvider(fs, provider_name) ==
    IF fs.inst[provider_name] = 0
    THEN IF config.providers[provider_name].shape = "null"
         THEN \* provider_config is None: None.get raises
              [ fs |-> fs,
                res |-> Raise("AttributeError",
                              "'NoneType' object has no attribute 'get'", << >>, "",
                              0, "") ]
         ELSE IF ~GetEnabled(ProviderConfigOf(config, provider_name), TRUE)
         THEN [ fs |-> fs,
                res |-> ProviderError("Provider {} is disabled", << provider_name >>, "") ]
         ELSE LET c == CreateProvider(fs, provider_name,
                                      ProviderConfigOf(config, provider_name)) IN
              IF c.res.kind = "return"
              THEN [ fs |-> [ c.fs EXCEPT !.inst[provider_name] = c.res.inst,
                                          !.cr[provider_name] = @ + 1 ],
                     res |-> c.res ]
              ELSE c
    ELSE [ fs |-> fs, res |-> Return(fs.inst[provider_name]) ]

\* _auto_detect_provider matching on the name as given, without lower()
AutoDetectProvider_CaseSensitive(model) ==
    IF StartsWith(model, s_claude) THEN "claude"
    ELSE IF StartsWith(model, s_gpt) \/ StartsWith(model, s_o1) THEN "openai"
    ELSE IF Contains(model, s_embedding)
    THEN IF Contains(model, s_ada) \/ Contains(model, s_text_embedding)
         THEN "openai"
         ELSE IF model \in AzureEmbeddingList THEN "azure"
         ELSE ""
    ELSE ""

\* ProviderFactory._auto_detect_provider ("" = None)
AutoDetectProvider(model) ==
    LET model_lower == Lower(model) IN
    IF StartsWith(model_lower, s_claude) THEN "claude"
    ELSE IF StartsWith(model_lower, s_gpt) \/ StartsWith(model_lower, s_o1) THEN "openai"
    ELSE IF Contains(model_lower, s_embedding)
    THEN IF Contains(model_lower, s_ada) \/ Contains(model_lower, s_text_embedding)
         THEN "openai"
         ELSE IF model_lower \in AzureEmbeddingList THEN "azure"
         ELSE ""
    ELSE ""

\* _auto_detect_provider of every model name of the model, computed once
AutoDetected == [ m \in AllModels |-> AutoDetectProvider(m) ]

\* the provider name get_provider_for_model settles on ("" = none):
\* model_mapping.get(model), and _auto_detect_provider when that is falsy
ProviderNameFor(model) ==
    IF config.model_mapping[model] # ""
    THEN config.model_mapping[model]
    ELSE AutoDetected[model]

\* get_provider_for_model falling back to openai when nothing is detected
GetProviderForModel_DefaultOpenAI(fs, model) ==
    IF ProviderNameFor(model) = ""
    THEN GetProvider(fs, "openai")
    ELSE GetProvider(fs, ProviderNameFor(model))

\* ProviderFactory.get_provider_for_model
GetProviderForModel(fs, model) ==
    IF ProviderNameFor(model) = ""
    THEN [ fs |-> fs,
           res |-> ProviderError("No provider configured for model: {}", model, "") ]
    ELSE GetProvider(fs, ProviderNameFor(model))

\* the assignment every action that went through the factory ends with
Commit(fs) ==
    /\ Len(fs.ads) <= MaxInstances
    /\ _provider_instances' = fs.inst
    /\ adapters' = fs.ads
    /\ created' = fs.cr

----------------------------------------------------------------------------
(* Adapters: model allowlists and health probes *)

openai_models ==
    { <<"g","p","t","-","4">>,
      <<"g","p","t","-","4","-","0","6","1","3">>,
      <<"g","p","t","-","4","-","3","2","k">>,
      <<"g","p","t","-","4","-","3","2","k","-","0","6","1","3">>,
      <<"g","p","t","-","4","-","1","1","0","6","-","p","r","e","v","i","e","w">>,
      <<"g","p","t","-","4","-","0","1","2","5","-","p","r","e","v","i","e","w">>,
      <<"g","p","t","-","4","-","t","u","r","b","o","-","p","r","e","v","i","e","w">>,
      <<"g","p","t","-","4","-","t","u","r","b","o">>,
      <<"g","p","t","-","4","-","t","u","r","b","o","-","2","0","2","4","-","0","4","-","0","9">>,
      <<"g","p","t","-","4","o">>,
      <<"g","p","t","-","4","o","-","2","0","2","4","-","0","5","-","1","3">>,
      <<"g","p","t","-","4","o","-","2","0","2","4","-","0","8","-","0","6">>,
      <<"g","p","t","-","4","o","-","m","i","n","i">>,
      <<"g","p","t","-","4","o","-","m","i","n","i","-","2","0","2","4","-","0","7","-","1","8">>,
      <<"g","p","t","-","3",".","5","-","t","u","r","b","o">>,
      <<"g","p","t","-","3",".","5","-","t","u","r","b","o","-","0","6","1","3">>,
      <<"g","p","t","-","3",".","5","-","t","u","r","b","o","-","1","6","k">>,
      <<"g","p","t","-","3",".","5","-","t","u","r","b","o","-","1","6","k","-","0","6","1","3">>,
      <<"g","p","t","-","3",".","5","-","t","u","r","b","o","-","1","1","0","6">>,
      <<"g","p","t","-","3",".","5","-","t","u","r","b","o","-","0","1","2","5">>,
      <<"t","e","x","t","-","e","m","b","e","d","d","i","n","g","-","a","d","a","-","0","0","2">>,
      <<"t","e","x","t","-","e","m","b","e","d","d","i","n","g","-","3","-","s","m","a","l","l">>,
      <<"t","e","x","t","-","e","m","b","e","d","d","i","n","g","-","3","-","l","a","r","g","e">>,
      <<"o","1","-","p","r","e","v","i","e","w">>,
      <<"o","1","-","p","r","e","v","i","e","w","-","2","0","2","4","-","0","9","-","1","2">>,
      <<"o","1","-","m","i","n","i">>,
      <<"o","1","-","m","i","n","i","-","2","0","2","4","-","0","9","-","1","2">> }

azure_models ==
    { <<"g","p","t","-","4","o">>,
      <<"g","p","t","-","4">>,
      <<"g","p","t","-","4","-","3","2","k">>,
      <<"g","p","t","-","3","5","-","t","u","r","b","o">>,
      <<"g","p","t","-","3","5","-","t","u","r","b","o","-","1","6","k">>,
      <<"t","e","x","t","-","e","m","b","e","d","d","i","n","g","-","a","d","a","-","0","0","2">>,
      <<"t","e","x","t","-","e","m","b","e","d","d","i","n","g","-","3","-","s","m","a","l","l">>,
      <<"t","e","x","t","-","e","m","b","e","d","d","i","n","g","-","3","-","l","a","r","g","e">>,
      <<"g","p","t","-","4","-","t","u","r","b","o">>,
      <<"g","p","t","-","4","-","t","u","r","b","o","-","2","0","2","4","-","0","4","-","0","9">> }

claude_supported_models ==
    << <<"c","l","a","u","d","e","-","3","-","5","-","s","o","n","n","e","t","-","2","0","2","4","1","0","2","2">>,
      <<"c","l","a","u","d","e","-","3","-","5","-","h","a","i","k","u","-","2","0","2","4","1","0","2","2">>,
      <<"c","l","a","u","d","e","-","3","-","o","p","u","s","-","2","0","2","4","0","2","2","9">> >>

\* is_model_supported of each adapter class
IsModelSupported(cls, model) ==
    CASE cls = "OpenAIProvider" -> model \in openai_models
      [] cls = "AzureOpenAIProvider" -> model \in azure_models
      [] cls = "ClaudeProvider" ->
            \/ \E i \in 1..Len(claude_supported_models) :
                 Lower(model) = Lower(claude_supported_models[i])
            \/ \E i \in 1..Len(claude_supported_models) :
                 Contains(Lower(claude_supported_models[i]), Lower(model))
      [] OTHER -> TRUE

Supported == [ c \in Classes |-> [ m \in AllModels |-> IsModelSupported(c, m) ] ]

\* a call on a client that was closed fails like a broken connection:
\* the SDK adapters own their client (closed by adapter.close()), the others
\* use the factory's HTTP client
Reach(ad, up) ==
    IF ad.cls \in { "ClaudeProvider", "OpenAIProvider" }
    THEN IF ad.close_calls > 0 THEN ConnectionError ELSE up
    ELSE IF http_client.is_closed THEN ConnectionError ELSE up

\* health_check of each adapter class: "True", "False" or "raise"
\*   Claude, OpenAI: the SDK call raises on a connection failure and on every
\*     non-2xx status; try/except Exception turns that into False
\*   Azure: http_client.get raises on a connection failure only; True iff the
\*     status is 200
\*   other classes: a health_check without a try/except
HealthCheck(cls, up) ==
    CASE cls \in { "ClaudeProvider", "OpenAIProvider" } ->
            IF Is2xx(up) THEN "True" ELSE "False"
      [] cls = "AzureOpenAIProvider" ->
            IF up.kind = "error" THEN "False"
            ELSE IF up.status = 200 THEN "True" ELSE "False"
      [] OTHER ->
            IF up.kind = "error" THEN "raise"
            ELSE IF Is2xx(up) THEN "True" ELSE "False"

\* the name an adapter gives as provider= in its ProviderError
ProviderTag(cls) ==
    CASE cls = "ClaudeProvider" -> "claude"
      [] cls = "OpenAIProvider" -> "openai"
      [] cls = "AzureOpenAIProvider" -> "azure"
      [] OTHER -> ""

\* what the upstream call of chat_completion / create_embeddings comes to:
\* a response on a 2xx answer, else a ProviderError with the upstream status,
\* or the default status when the connection failed. An unusable body makes
\* the SDK clients raise, which `except Exception` turns into a ProviderError;
\* AzureOpenAIProvider catches httpx.HTTPError only, and what response.json()
\* or the response model raises gets out
UpstreamCall(cls, up) ==
    IF Is2xx(up) THEN Value("response")
    ELSE IF up.kind = "garbled" /\ cls = "AzureOpenAIProvider"
    THEN Raise("JSONDecodeError", "Expecting value", << >>, "", 0, "")
    ELSE IF up.kind = "response"
    THEN Raise("ProviderError", "{} API error", << ProviderTag(cls) >>, "",
               up.status, ProviderTag(cls))
    ELSE Raise("ProviderError", "{} API error", << ProviderTag(cls) >>, "",
               DefaultStatus, ProviderTag(cls))

\* adapter.chat_completion(request) with request.model = model
ChatCompletion(ad, model, up) ==
    IF ~Supported[ad.cls][model]
    THEN Raise("ProviderError", "Model {} not supported", model, "", DefaultStatus,
               ProviderTag(ad.cls))
    ELSE UpstreamCall(ad.cls, Reach(ad, up))

\* create_embeddings with the test of the model put first in every class
CreateEmbeddings_ModelTestFirst(ad, model, up) ==
    IF ~Supported[ad.cls][model]
    THEN Raise("ProviderError", "Model {} not supported", model, "", DefaultStatus,
               ProviderTag(ad.cls))
    ELSE IF ad.cls = "ClaudeProvider"
    THEN Raise("ProviderError", "Claude does not support embeddings", << >>, "",
               501, "claude")
    ELSE UpstreamCall(ad.cls, Reach(ad, up))

\* adapter.create_embeddings(request) with request.model = model
CreateEmbeddings(ad, model, up) ==
    IF ad.cls = "ClaudeProvider"
    THEN Raise("ProviderError", "Claude does not support embeddings", << >>, "",
               501, "claude")
    ELSE IF ~Supported[ad.cls][model]
    THEN Raise("ProviderError", "Model {} not supported", model, "", DefaultStatus,
               ProviderTag(ad.cls))
    ELSE UpstreamCall(ad.cls, Reach(ad, up))

----------------------------------------------------------------------------
(* Operations of the factory *)

get_provider(provider_name) ==
    LET r == GetProvider(FactoryState, provider_name) IN
    /\ Ready
    /\ Commit(r.fs)
    /\ last' = Call("get_provider", << provider_name >>, r.res)
    /\ UNCHANGED << config, _providers, http_client >>
    /\ UNCHANGED avars

get_provider_for_model(model) ==
    LET r == GetProviderForModel(FactoryState, model) IN
    /\ Ready
    /\ Commit(r.fs)
    /\ last' = Call("get_provider_for_model", model, r.res)
    /\ UNCHANGED << config, _providers, http_client >>
    /\ UNCHANGED avars

\* ProviderFactory._auto_detect_provider called on its own
\* (test_auto_detect_provider)
auto_detect_provider(model) ==
    /\ Ready
    /\ last' = Call("_auto_detect_provider", model, Value(AutoDetected[model]))
    /\ UNCHANGED << config, _providers, _provider_instances, http_client, adapters,
                    created >>
    /\ UNCHANGED avars

create_provider(provider_name, provider_config) ==
    LET r == CreateProvider(FactoryState, provider_name, provider_config) IN
    /\ Ready
    /\ Commit(r.fs)
    /\ last' = Call("create_provider", << provider_name >>, r.res)
    /\ UNCHANGED << config, _providers, http_client >>
    /\ UNCHANGED avars

\* list_available_providers reporting a provider with a cached adapter as
\* available
ListAvailableProviders_FromCache ==
    [ n \in Names |->
        IF _providers[n] = "" THEN "absent"
        ELSE IF _provider_instances[n] # 0 THEN "True"
        ELSE IF config.providers[n].shape = "null" THEN "False"
        ELSE IF GetEnabled(ProviderConfigOf(config, n), FALSE)
                /\ ProviderConfigOf(config, n).api_key # "absent"
             THEN "True" ELSE "False" ]

\* ProviderFactory.list_available_providers: name -> "True" / "False"
\* ("absent" = not a key of the result)
ListAvailableProviders ==
    [ n \in Names |->
        IF _providers[n] = "" THEN "absent"
        ELSE IF config.providers[n].shape = "null" THEN "False"
        ELSE IF GetEnabled(ProviderConfigOf(config, n), FALSE)
                /\ ProviderConfigOf(config, n).api_key # "absent"
             THEN "True" ELSE "False" ]

list_available_providers ==
    /\ Ready
    /\ last' = [ Call("list_available_providers", << >>, Return(0))
                   EXCEPT !.report = ListAvailableProviders ]
    /\ UNCHANGED << config, _providers, _provider_instances, http_client, adapters,
                    created >>
    /\ UNCHANGED avars

\* ProviderFactory.get_supported_models: model -> provider ("" = not a key)
GetSupportedModels ==
    [ m \in AllModels |->
        IF config.model_mapping[m] # "" THEN config.model_mapping[m]
        ELSE IF (\E i \in 1..Len(AutoModels) : AutoModels[i] = m) /\ AutoDetected[m] # ""
             THEN AutoDetected[m]
             ELSE "" ]

get_supported_models ==
    /\ Ready
    /\ last' = [ Call("get_supported_models", << >>, Return(0))
                   EXCEPT !.models = GetSupportedModels ]
    /\ UNCHANGED << config, _providers, _provider_instances, http_client, adapters,
                    created >>
    /\ UNCHANGED avars

\* ProviderFactory.register_provider: the registry after the call and the outcome
RegisterProvider(name, provider_class) ==
    IF ~ClassInfo(provider_class).base
    THEN [ reg |-> _providers,
           res |-> ProviderError("Provider class must inherit from BaseProvider",
                                 << >>, "") ]
    ELSE [ reg |-> [ _providers EXCEPT ![name] = provider_class ],
           res |-> Return(0) ]

register_provider(name, provider_class) ==
    LET r == RegisterProvider(name, provider_class) IN
    /\ Ready
    /\ _providers' = r.reg
    /\ last' = Call("register_provider", << name, provider_class >>, r.res)
    /\ UNCHANGED << config, _provider_instances, http_client, adapters, created >>
    /\ UNCHANGED avars

\* the probe of one round without the try/except: an exception gets out
HealthOf_Unguarded(g, up) ==
    IF g.res.kind = "raise" THEN "raise"
    ELSE HealthCheck(g.fs.ads[g.res.inst].cls, Reach(g.fs.ads[g.res.inst], up))

\* the probe of one round of health_check_all on the outcome g of
\* get_provider: any exception of either is reported as False
HealthOf(g, up) ==
    IF g.res.kind = "raise" THEN "False"
    ELSE IF HealthCheck(g.fs.ads[g.res.inst].cls, Reach(g.fs.ads[g.res.inst], up)) = "raise"
    THEN "False"
    ELSE HealthCheck(g.fs.ads[g.res.inst].cls, Reach(g.fs.ads[g.res.inst], up))

\* the loop of health_check_all over the names NameOrder[i..], in order
\* (the keys of list_available_providers(): every registered name)
RECURSIVE HealthLoop(_, _, _, _)
HealthLoop(fs, i, ups, report) ==
    IF i > Len(NameOrder) THEN [ fs |-> fs, report |-> report ]
    ELSE IF ListAvailableProviders[NameOrder[i]] = "absent"
    THEN HealthLoop(fs, i + 1, ups, report)
    ELSE CHOOSE r \in
           { HealthLoop(g.fs, i + 1, ups,
                        [ report EXCEPT ![NameOrder[i]] = HealthOf(g, ups[NameOrder[i]]) ]) :
               g \in { GetProvider(fs, NameOrder[i]) } } : TRUE

\* ProviderFactory.health_check_all: outcome, and the report when it returns
HealthCheckAll(fs, ups) ==
    LET r == HealthLoop(fs, 1, ups, NoReport) IN
    [ fs |-> r.fs, res |-> Return(0), report |-> r.report ]

health_check_all(ups) ==
    LET r == HealthCheckAll(FactoryState, ups) IN
    /\ Ready
    /\ Commit(r.fs)
    /\ last' = [ Call("health_check_all", << >>, r.res)
                   EXCEPT !.report = r.report, !.ups = ups ]
    /\ UNCHANGED << config, _providers, http_client >>
    /\ UNCHANGED avars

\* adapter.health_check() on an adapter that exists
health_check(i, up) ==
    LET h == HealthCheck(adapters[i].cls, Reach(adapters[i], up)) IN
    /\ Ready
    /\ last' = [ Call("health_check", << adapters[i].cls >>,
                       IF h = "raise"
                       THEN Raise("Exception", "probe failed", << >>, "", 0, "")
                       ELSE Value(h))
                   EXCEPT !.ups = AllAnswer(up) ]
    /\ UNCHANGED << config, _providers, _provider_instances, http_client, adapters,
                    created >>
    /\ UNCHANGED avars

\* aclose() on the HTTP client without the test of is_closed
CloseHttpClient_Unconditional(hc) ==
    [ is_closed |-> TRUE, aclose_calls |-> hc.aclose_calls + 1 ]

\* the end of close(): aclose() on the HTTP client unless it is closed
CloseHttpClient(hc) ==
    IF ~hc.is_closed
    THEN [ is_closed |-> TRUE, aclose_calls |-> hc.aclose_calls + 1 ]
    ELSE hc

\* close without `self._provider_instances.clear()`
close_KeepsInstances ==
    /\ Ready
    /\ adapters' =
         [ i \in DOMAIN adapters |->
             IF \E n \in Names : _provider_instances[n] = i
             THEN [ adapters[i] EXCEPT !.close_calls = @ + 1 ]
             ELSE adapters[i] ]
    /\ http_client' = CloseHttpClient(http_client)
    /\ last' = Call("close", << >>, Return(0))
    /\ UNCHANGED << config, _providers, _provider_instances, created >>
    /\ UNCHANGED avars

\* ProviderFactory.close
close ==
    /\ Ready
    /\ adapters' =
         [ i \in DOMAIN adapters |->
             IF \E n \in Names : _provider_instances[n] = i
             THEN [ adapters[i] EXCEPT !.close_calls = @ + 1 ]
             ELSE adapters[i] ]
    /\ http_client' = CloseHttpClient(http_client)
    /\ _provider_instances' = [ n \in Names |-> 0 ]
    /\ created' = [ n \in Names |-> 0 ]
    /\ last' = Call("close", << >>, Return(0))
    /\ UNCHANGED << config, _providers >>
    /\ UNCHANGED avars

\* the try/except of the endpoints: a ProviderError e is answered with
\* e.status_code and e.message, any other exception with 500 and str(e)
Answer(res) ==
    IF res.kind = "return" THEN Http(200, res)
    ELSE IF res.exc = "ProviderError" THEN Http(res.status_code, res)
    ELSE Http(500, res)

\* POST /v1/chat/completions (stream = false)
create_chat_completion(model, up) ==
    LET r == GetProviderForModel(FactoryState, model) IN
    /\ Ready
    /\ Commit(r.fs)
    /\ last' = [ Call("create_chat_completion", model,
                      IF r.res.kind = "raise" THEN Answer(r.res)
                      ELSE Answer(ChatCompletion(r.fs.ads[r.res.inst], model, up)))
                   EXCEPT !.served = r.res.inst ]
    /\ UNCHANGED << config, _providers, http_client >>
    /\ UNCHANGED avars

\* POST /v1/embeddings
create_embeddings(model, up) ==
    LET r == GetProviderForModel(FactoryState, model) IN
    /\ Ready
    /\ Commit(r.fs)
    /\ last' = Call("create_embeddings", model,
                    IF r.res.kind = "raise" THEN Answer(r.res)
                    ELSE Answer(CreateEmbeddings(r.fs.ads[r.res.inst], model, up)))
    /\ UNCHANGED << config, _providers, http_client >>
    /\ UNCHANGED avars

\* the holder of the configuration dict changes one provider entry in place
\* (the factory keeps a reference to the dict, not a copy)
reconfigure(name, entry) ==
    /\ Ready
    /\ config.providers[name] # entry
    /\ config' = [ config EXCEPT !.providers[name] = entry ]
    /\ UNCHANGED << _providers, _provider_instances, http_client, adapters, created,
                    last >>
    /\ UNCHANGED avars

\* the outcome of the call is handed to the caller
deliver ==
    /\ ~Ready
    /\ last' = Idle
    /\ UNCHANGED << config, _providers, _provider_instances, http_client, adapters,
                    created >>
    /\ UNCHANGED avars

\* the calls of create_provider (test_create_provider_*)
CreateInputs ==
    { << "claude", E_full >>, << "claude", E_nokey >>, << "azure", E_full >>,
      << "mock", E_full >>, << "unknown", E_missing >> }

\* the models of the requests sent to the endpoints
EndpointModels ==
    { m_gpt_4, m_claude_3_5_sonnet, m_text_embedding_3_small, m_unknown_model }

\* the upstream outcomes of one health_check_all, per provider name
HealthInputs ==
    { AllAnswer(Response(200)), AllAnswer(Response(500)), AllAnswer(ConnectionError),
      [ AllAnswer(Response(200)) EXCEPT !["openai"] = Response(500) ],
      [ AllAnswer(Response(500)) EXCEPT !["openai"] = Response(204) ],
      [ AllAnswer(Response(200)) EXCEPT !["mock"] = ConnectionError ] }

Next ==
    \/ \E n \in Names : get_provider(n)
    \/ \E m \in Models : get_provider_for_model(m)
    \/ \E m \in Models : auto_detect_provider(m)
    \/ \E a \in CreateInputs : create_provider(a[1], a[2])
    \/ list_available_providers
    \/ get_supported_models
    \/ \E c \in { "MockProvider", "CompleteProvider", "str" } : register_provider("mock", c)
    \/ \E ups \in HealthInputs : health_check_all(ups)
    \/ \E i \in DOMAIN adapters, up \in Upstream : health_check(i, up)
    \/ \E m \in EndpointModels, up \in { Response(200), Response(500) } :
         create_chat_completion(m, up)
    \/ \E m \in EndpointModels, up \in { Response(200), ConnectionError } :
         create_embeddings(m, up)
    \/ close
    \/ deliver

\* the factory with the configuration it was constructed with
Spec == Init /\ [][Next]_vars

\* the entries the configuration is changed to
ReconfigInputs ==
    { << "claude", E_full >>, << "claude", E_disabled >>, << "claude", E_default >>,
      << "claude", E_null >>, << "claude", E_nokey >>, << "openai", E_disabled >>,
      << "openai", E_full >> }

NextReconfig ==
    \/ \E a \in ReconfigInputs : reconfigure(a[1], a[2])
    \/ \E n \in Names : get_provider(n)
    \/ list_available_providers
    \/ close
    \/ deliver

\* the factory over a configuration dict that its holder changes in place
SpecReconfig == Init /\ [][NextReconfig]_vars

----------------------------------------------------------------------------
(* Calls on one adapter: the methods of ClaudeProvider, OpenAIProvider and
   AzureOpenAIProvider, the receiver given by its class *)

ProviderClasses == { "ClaudeProvider", "OpenAIProvider", "AzureOpenAIProvider" }

\* the adapter the methods are called on
AdapterOf(cls) == NewAdapter(cls, E_full)

Min2(a, b) == IF a < b THEN a ELSE b
Max2(a, b) == IF a > b THEN a ELSE b

\* max(lo, min(hi, x))
Clamp(lo, hi, x) == Max2(lo, Min2(hi, x))

\* `if request.f is not None: params['f'] = max(lo, min(hi, request.f))`
SentClamped(lo, hi, o) == IF o.set THEN Some(Clamp(lo, hi, o.v)) ELSE None

\* `if request.f:` a field is sent when it is neither None nor 0
SentIfTruthy(o) == IF o.set /\ o.v # 0 THEN o ELSE None

\* `request.f or default`
OrDefault(o, default) == IF o.set /\ o.v # 0 THEN o.v ELSE default

\* chat_params of OpenAIProvider.chat_completion (bounds in tenths)
OpenAIChatParams(request) ==
    Payload(request.model, request.messages, "",
            SentIfTruthy(request.max_tokens),
            SentClamped(0, 20, request.temperature),
            SentClamped(0, 10, request.top_p),
            SentClamped(-20, 20, request.frequency_penalty),
            SentClamped(-20, 20, request.presence_penalty))

\* payload of AzureOpenAIProvider.chat_completion; the model goes into the URL
AzureChatParams(request) ==
    Payload(request.model, request.messages, "",
            SentIfTruthy(request.max_tokens),
            SentClamped(0, 20, request.temperature),
            SentClamped(0, 10, request.top_p),
            SentClamped(-20, 20, request.frequency_penalty),
            SentClamped(-20, 20, request.presence_penalty))

\* the loop without the test of the role: every message is appended
RECURSIVE ConvertLoop_SystemAsMessage(_, _, _, _)
ConvertLoop_SystemAsMessage(msgs, i, messages, system_prompt) ==
    IF i > Len(msgs) THEN [ messages |-> messages, system |-> system_prompt ]
    ELSE ConvertLoop_SystemAsMessage(msgs, i + 1,
                                     Append(messages, Msg(msgs[i].role, msgs[i].content)),
                                     system_prompt)

\* the loop keeping the first system message it meets
RECURSIVE ConvertLoop_FirstSystemWins(_, _, _, _)
ConvertLoop_FirstSystemWins(msgs, i, messages, system_prompt) ==
    IF i > Len(msgs) THEN [ messages |-> messages, system |-> system_prompt ]
    ELSE IF msgs[i].role = "system"
    THEN ConvertLoop_FirstSystemWins(msgs, i + 1, messages,
                                     IF system_prompt = "" THEN msgs[i].content
                                     ELSE system_prompt)
    ELSE ConvertLoop_FirstSystemWins(msgs, i + 1,
                                     Append(messages, Msg(msgs[i].role, msgs[i].content)),
                                     system_prompt)

\* the loop of _convert_request_to_claude_format over request.messages[i..]:
\* a system message overwrites system_prompt, any other is appended
RECURSIVE ConvertLoop(_, _, _, _)
ConvertLoop(msgs, i, messages, system_prompt) ==
    IF i > Len(msgs) THEN [ messages |-> messages, system |-> system_prompt ]
    ELSE IF msgs[i].role = "system"
    THEN ConvertLoop(msgs, i + 1, messages, msgs[i].content)
    ELSE ConvertLoop(msgs, i + 1,
                     Append(messages, Msg(msgs[i].role, msgs[i].content)),
                     system_prompt)

\* ClaudeProvider._convert_request_to_claude_format
ConvertRequestToClaudeFormat(request) ==
    LET c == ConvertLoop(request.messages, 1, << >>, "") IN
    Payload(request.model, c.messages, c.system,
            Some(OrDefault(request.max_tokens, 4096)),
            Some(OrDefault(request.temperature, 7)),
            SentIfTruthy(request.top_p), None, None)

\* ClaudeProvider._convert_messages_format: the same loop over message dicts,
\* returning the pair (claude_messages, system_message)
ConvertMessagesFormat(messages) ==
    LET c == ConvertLoop(messages, 1, << >>, "") IN
    Payload(<< >>, c.messages, c.system, None, None, None, None, None)

\* client_kwargs of ClaudeProvider.chat_completion
ClaudeClientKwargs(request) ==
    LET claude_request == ConvertRequestToClaudeFormat(request) IN
    Payload(request.model, claude_request.messages, claude_request.system,
            claude_request.max_tokens, request.temperature, request.top_p, None, None)

\* what chat_completion of each class transmits upstream
ChatParams(cls, request) ==
    CASE cls = "ClaudeProvider" -> ClaudeClientKwargs(request)
      [] cls = "OpenAIProvider" -> OpenAIChatParams(request)
      [] OTHER -> AzureChatParams(request)

\* chat_completion: the outcome and the upstream calls issued
AdapterChatCompletion(cls, request, up) ==
    [ res |-> ChatCompletion(AdapterOf(cls), request.model, up),
      sent |-> IF ~Supported[cls][request.model] THEN << >>
               ELSE << ChatParams(cls, request) >> ]

\* the body of an embeddings call
EmbeddingsPayload(model) == Payload(model, << >>, "", None, None, None, None, None)

\* the data of the EmbeddingResponse built from the data of the upstream
\* answer. OpenAI: one dict per entry of response.data, in its order, with
\* the entry's own object, embedding and index; Azure: EmbeddingResponse(**data)
\* keeps the list as it came
EmbeddingData(cls, data) ==
    IF cls = "OpenAIProvider"
    THEN [ i \in 1..Len(data) |->
             [ object |-> data[i].object, embedding |-> data[i].embedding,
               index |-> data[i].index ] ]
    ELSE data

\* create_embeddings: the outcome and the upstream calls issued
AdapterCreateEmbeddings(cls, model, up) ==
    [ res |-> CreateEmbeddings(AdapterOf(cls), model, up),
      sent |-> IF cls = "ClaudeProvider" \/ ~Supported[cls][model] THEN << >>
               ELSE << EmbeddingsPayload(model) >> ]

\* the requests given to chat_completion and to the conversion
MsgsTerse == << Msg("system", "Be terse"), Msg("user", "Hi") >>
MsgsPlain == << Msg("user", "Hi") >>
MsgsDialog == << Msg("user", "Hi"), Msg("assistant", "Hello"), Msg("user", "Bye") >>
MsgsMid == << Msg("user", "Hi"), Msg("system", "Be terse"), Msg("assistant", "Hello") >>
MsgsTwoSystems ==
    << Msg("system", "Be terse"), Msg("user", "Hi"), Msg("system", "Be kind"),
       Msg("assistant", "Hello") >>
MsgsEmptySystem == << Msg("system", ""), Msg("user", "Hi") >>
MsgsLastEmpty == << Msg("system", "Be terse"), Msg("user", "Hi"), Msg("system", "") >>

BaseRequest(model) == ChatRequest(model, MsgsTerse, None, None, None, None, None)

Requests(model) ==
    { [ BaseRequest(model) EXCEPT !.messages = m ] :
        m \in { MsgsTerse, MsgsPlain, MsgsDialog, MsgsMid, MsgsTwoSystems,
                 MsgsEmptySystem, MsgsLastEmpty } }
    \cup { [ BaseRequest(model) EXCEPT !.max_tokens = Some(v) ] : v \in { 0, 1, 100 } }
    \cup { [ BaseRequest(model) EXCEPT !.temperature = Some(v) ] :
             v \in { -5, 0, 7, 20, 30 } }
    \cup { [ BaseRequest(model) EXCEPT !.top_p = Some(v) ] : v \in { -1, 0, 5, 10, 15 } }
    \cup { [ BaseRequest(model) EXCEPT !.frequency_penalty = Some(v) ] :
             v \in { -30, -20, 0, 20, 25 } }
    \cup { [ BaseRequest(model) EXCEPT !.presence_penalty = Some(v) ] :
             v \in { -30, -20, 0, 20, 25 } }
    \cup { ChatRequest(model, MsgsDialog, Some(100), Some(30), Some(15), Some(25),
                       Some(-30)) }

\* the models of the chat requests
ChatModels == { m_gpt_4, m_claude_3_5_sonnet_20241022, m_unknown_model }

NoAdapterCall == acall.op = "idle"

\* the adapter is called by one caller, one call at a time
Quiet == NoAdapterCall /\ stream.state = "idle"

\* adapter.is_model_supported(model)
is_model_supported(cls, model) ==
    /\ Quiet
    /\ acall' = ACall("is_model_supported", cls, model,
                      Value(IF IsModelSupported(cls, model) THEN "True" ELSE "False"))
    /\ UNCHANGED << fvars, stream, cvars >>

\* adapter.chat_completion(request)
chat_completion(cls, request, up) ==
    LET r == AdapterChatCompletion(cls, request, up) IN
    /\ Quiet
    /\ acall' = [ ACall("chat_completion", cls, request.model, r.res)
                    EXCEPT !.req = request, !.sent = r.sent, !.up = << up >> ]
    /\ UNCHANGED << fvars, stream, cvars >>

\* adapter.create_embeddings(request)
provider_create_embeddings(cls, model, input, up, data) ==
    LET r == AdapterCreateEmbeddings(cls, model, up) IN
    /\ Quiet
    /\ acall' = [ ACall("create_embeddings", cls, model, r.res)
                    EXCEPT !.sent = r.sent, !.up = << up >>, !.input = input,
                           !.data = IF r.res.kind = "return"
                                    THEN EmbeddingData(cls, data) ELSE << >> ]
    /\ UNCHANGED << fvars, stream, cvars >>

\* ClaudeProvider._convert_request_to_claude_format(request)
convert_request_to_claude_format(request) ==
    /\ Quiet
    /\ acall' = [ ACall("_convert_request_to_claude_format", "ClaudeProvider",
                        request.model, Return(0))
                    EXCEPT !.req = request,
                           !.payload = << ConvertRequestToClaudeFormat(request) >> ]
    /\ UNCHANGED << fvars, stream, cvars >>

\* ClaudeProvider._convert_messages_format(messages)
convert_messages_format(request) ==
    /\ Quiet
    /\ acall' = [ ACall("_convert_messages_format", "ClaudeProvider", request.model,
                        Return(0))
                    EXCEPT !.req = request,
                           !.payload = << ConvertMessagesFormat(request.messages) >> ]
    /\ UNCHANGED << fvars, stream, cvars >>

\* the outcome of the adapter call is handed to the caller
returned ==
    /\ ~NoAdapterCall
    /\ acall' = NoCall
    /\ UNCHANGED << fvars, stream, cvars >>

\* the answer of the upstream to GET .../models: the body is not JSON
\* ("invalid"), a JSON array ("array"), or a JSON object ("object") with or
\* without the key 'data'; an entry of data has the key 'id' or lacks it
ModelsBody(kind, has_data, data) == [ kind |-> kind, has_data |-> has_data, data |-> data ]
ModelEntry(id) == [ has_id |-> TRUE, id |-> id ]
EntryWithoutId == [ has_id |-> FALSE, id |-> "" ]
ModelsAnswer(status, body) == [ kind |-> "response", status |-> status, body |-> body ]
ModelsConnectionError ==
    [ kind |-> "error", status |-> 0, body |-> ModelsBody("invalid", FALSE, << >>) ]

\* the list AzureOpenAIProvider.list_models returns on httpx.HTTPError
azure_fallback_models == << "gpt-4o", "gpt-4", "gpt-35-turbo" >>

\* AzureOpenAIProvider.list_models: the outcome, and the ids of the ModelInfo
\* list when it returns. raise_for_status raises httpx.HTTPStatusError and a
\* failed connection raises httpx.ConnectError, both caught; response.json(),
\* data.get and model_data['id'] raise exceptions that are not httpx.HTTPError
AzureListModels(up) ==
    IF up.kind = "error" \/ ~Is2xx(up)
    THEN [ res |-> Value("models"), ids |-> azure_fallback_models ]
    ELSE IF up.body.kind = "invalid"
    THEN [ res |-> Raise("JSONDecodeError", "Expecting value", << >>, "", 0, ""),
           ids |-> << >> ]
    ELSE IF up.body.kind = "array"
    THEN [ res |-> Raise("AttributeError", "'list' object has no attribute 'get'",
                         << >>, "", 0, ""),
           ids |-> << >> ]
    ELSE LET data == IF up.body.has_data THEN up.body.data ELSE << >> IN
         IF \E i \in 1..Len(data) : ~data[i].has_id
         THEN [ res |-> Raise("KeyError", "'id'", << >>, "", 0, ""), ids |-> << >> ]
         ELSE [ res |-> Value("models"), ids |-> [ i \in 1..Len(data) |-> data[i].id ] ]

\* the discovery call did not come to a usable list: the connection failed,
\* the status is not a success, the body is not a JSON object, or an entry
\* of its data has no id
DiscoveryErrored(up) ==
    \/ up.kind = "error"
    \/ ~Is2xx(up)
    \/ up.body.kind # "object"
    \/ up.body.has_data /\ \E i \in 1..Len(up.body.data) : ~up.body.data[i].has_id

\* the answers of the discovery endpoint
ModelsUpstream ==
    { ModelsConnectionError,
      ModelsAnswer(500, ModelsBody("object", FALSE, << >>)),
      ModelsAnswer(404, ModelsBody("invalid", FALSE, << >>)),
      ModelsAnswer(200, ModelsBody("invalid", FALSE, << >>)),
      ModelsAnswer(200, ModelsBody("array", FALSE, << >>)),
      ModelsAnswer(200, ModelsBody("object", FALSE, << >>)),
      ModelsAnswer(200, ModelsBody("object", TRUE, << >>)),
      ModelsAnswer(200, ModelsBody("object", TRUE, << ModelEntry("gpt-4o") >>)),
      ModelsAnswer(200, ModelsBody("object", TRUE,
                                   << ModelEntry("gpt-4o"), ModelEntry("dep-1") >>)),
      ModelsAnswer(200, ModelsBody("object", TRUE,
                                   << ModelEntry("gpt-4o"), EntryWithoutId >>)) }

\* AzureOpenAIProvider.list_models()
azure_list_models(up) ==
    LET r == AzureListModels(up) IN
    /\ Quiet
    /\ acall' = [ ACall("list_models", "AzureOpenAIProvider", << >>, r.res)
                    EXCEPT !.ids = r.ids, !.up = << up >> ]
    /\ UNCHANGED << fvars, stream, cvars >>

\* one upstream event (Anthropic), chunk (OpenAI) or line (Azure):
\*   text    delta.text / delta.content / the content of the line ("" = none)
\*   finish  delta.stop_reason / finish_reason ("" = None)
Ev(type, text, finish) == [ type |-> type, text |-> text, finish |-> finish ]

\* a chunk the generator yields ("" = None / not a key of delta)
Chunk(id, role, content, finish_reason) ==
    [ id |-> id, role |-> role, content |-> content, finish_reason |-> finish_reason ]

\* the events of the Anthropic stream: text deltas, a delta without text,
\* message_delta with and without stop_reason, message_stop, and a type the
\* adapter does not know
ClaudeEvents ==
    { Ev("content_block_delta", "a", ""), Ev("content_block_delta", "b", ""),
      Ev("content_block_delta", "", ""), Ev("message_delta", "", "end_turn"),
      Ev("message_delta", "", ""), Ev("message_stop", "", ""), Ev("ping", "", "") }

\* the chunks of the OpenAI stream: content, finish, a chunk whose delta is
\* None, a usage chunk without choices, a finish chunk with usage
OpenAIEvents ==
    { Ev("chunk", "a", ""), Ev("chunk", "", "stop"), Ev("nodelta", "", ""),
      Ev("usage", "", ""), Ev("chunk+usage", "", "stop") }

\* the lines of the Azure stream: content, finish, blank
AzureEvents == { Ev("line", "a", ""), Ev("line", "", "stop"), Ev("blank", "", "") }

EventsOf(cls) ==
    CASE cls = "ClaudeProvider" -> ClaudeEvents
      [] cls = "OpenAIProvider" -> OpenAIEvents
      [] OTHER -> AzureEvents

\* the Anthropic mapping without the test `event.delta.text`: a chunk for
\* every content_block_delta
OnEvent_EmptyDelta(cls, message_id, ev) ==
    IF ev.type = "content_block_delta" THEN << Chunk(message_id, "", ev.text, "") >>
    ELSE IF ev.type = "message_delta" /\ ev.finish # ""
    THEN << Chunk(message_id, "", "", ev.finish) >>
    ELSE IF ev.type = "message_stop" THEN << Chunk(message_id, "", "", "stop") >>
    ELSE << >>

\* the chunks one upstream event makes the generator yield
\* (id = the message_id of the stream for Claude; OpenAI and Azure pass the
\* upstream's own id through, written 0)
OnEvent(cls, message_id, ev) ==
    CASE cls = "ClaudeProvider" ->
            IF ev.type = "content_block_delta"
            THEN IF ev.text # "" THEN << Chunk(message_id, "", ev.text, "") >> ELSE << >>
            ELSE IF ev.type = "message_delta"
            THEN IF ev.finish # "" THEN << Chunk(message_id, "", "", ev.finish) >>
                 ELSE << >>
            ELSE IF ev.type = "message_stop"
            THEN << Chunk(message_id, "", "", "stop") >>
            ELSE << >>
      [] cls = "OpenAIProvider" ->
            IF ev.type = "chunk" THEN << Chunk(0, "", ev.text, ev.finish) >>
            ELSE IF ev.type = "chunk+usage"
            THEN << Chunk(0, "", ev.text, ev.finish), Chunk(0, "", "", ev.finish) >>
            ELSE IF ev.type = "usage" THEN << Chunk(0, "", "", "") >>
            ELSE << >>
      [] OTHER ->
            IF ev.type = "line" THEN << Chunk(0, "", ev.text, ev.finish) >> ELSE << >>

\* what the generator raises when the upstream fails
StreamError(cls, ending) ==
    CASE cls = "ClaudeProvider" ->
            IF ending = "status_error"
            THEN Raise("ProviderError", "{} API error", << "claude" >>, "", 500, "claude")
            ELSE Raise("APIConnectionError", "Connection error.", << >>, "", 0, "")
      [] OTHER ->
            Raise("ProviderError", "{} API error", << ProviderTag(cls) >>, "", 500,
                  ProviderTag(cls))

\* the first step of adapter.chat_completion_stream(request): OpenAI and
\* Azure test the model and call the upstream; Claude reads message_id from
\* the clock and yields the chunk with delta.role, without a test
StreamStart(cls, model, events, ending, now) ==
    LET st == [ NoStream EXCEPT !.cls = cls, !.model = model, !.events = events,
                                !.ending = ending, !.now = now ] IN
    IF cls = "ClaudeProvider"
    THEN [ st EXCEPT !.state = "initial", !.message_id = now,
                     !.out = << Chunk(now, "assistant", "", "") >> ]
    ELSE IF ~Supported[cls][model]
    THEN [ st EXCEPT !.state = "failed",
                     !.error = Raise("ProviderError", "Model {} not supported", model, "",
                                     DefaultStatus, ProviderTag(cls)) ]
    ELSE [ st EXCEPT !.state = "open", !.upstream_calls = 1 ]

\* the generator runs on by one step
StreamStep(st) ==
    LET t == [ st EXCEPT !.now = @ + 1 ] IN
    IF st.state = "initial"
    THEN [ t EXCEPT !.state = "open", !.upstream_calls = @ + 1 ]
    ELSE IF st.state = "after_loop"
    THEN [ t EXCEPT !.state = "done",
                    !.out = Append(@, Chunk(st.message_id, "", "", "stop")) ]
    ELSE IF st.pos < Len(st.events)
    THEN [ t EXCEPT !.pos = @ + 1,
                    !.out = @ \o OnEvent(st.cls, st.message_id, st.events[st.pos + 1]),
                    !.state = IF st.cls = "ClaudeProvider"
                                 /\ st.events[st.pos + 1].type = "message_stop"
                              THEN "after_loop" ELSE "open" ]
    ELSE IF st.ending # "eof"
    THEN [ t EXCEPT !.state = "failed", !.error = StreamError(st.cls, st.ending) ]
    ELSE IF st.cls = "ClaudeProvider" THEN [ t EXCEPT !.state = "after_loop" ]
    ELSE [ t EXCEPT !.state = "done" ]

\* the upstream streams of at most n events
RECURSIVE EventSeqs(_, _)
EventSeqs(cls, n) ==
    IF n = 0 THEN { << >> }
    ELSE EventSeqs(cls, n - 1)
         \cup { Append(q, e) : q \in { r \in EventSeqs(cls, n - 1) : Len(r) = n - 1 },
                               e \in EventsOf(cls) }

Endings == { "eof", "status_error", "connection_error" }

\* the models of the streamed requests: one the class supports, one it does not
StreamModels(cls) ==
    IF cls = "ClaudeProvider" THEN { m_claude_3_5_sonnet_20241022, m_gpt_4 }
    ELSE { m_gpt_4, m_unknown_model }

\* adapter.chat_completion_stream(request) is called and its first chunk asked for
chat_completion_stream(cls, model, events, ending) ==
    /\ Quiet
    /\ stream' = StreamStart(cls, model, events, ending, 1)
    /\ UNCHANGED << fvars, acall, cvars >>

\* the consumer asks for more
stream_next ==
    /\ stream.state \in { "initial", "open", "after_loop" }
    /\ stream' = StreamStep(stream)
    /\ UNCHANGED << fvars, acall, cvars >>

\* the consumer is done with the generator
stream_closed ==
    /\ stream.state \in { "done", "failed" }
    /\ stream' = NoStream
    /\ UNCHANGED << fvars, acall, cvars >>

\* the factory of the unit tests; the adapters are called directly
InitAdapter ==
    /\ Init
    /\ config = [ providers |-> BaseProviders, model_mapping |-> TestMapping ]

\* the inputs of the embedding requests (test_create_embeddings_success,
\* test_create_embeddings_with_list_input)
EmbeddingInputs ==
    { EmbeddingInput(TRUE, << "Hello" >>), EmbeddingInput(FALSE, << "Hello" >>),
      EmbeddingInput(FALSE, << "Hello", "World" >>) }

\* the data of the upstream answers: one entry per text in order, and
\* answers that are short, long, out of order or numbered otherwise
EmbeddingAnswers ==
    { << EmbeddingEntry(0) >>,
      << EmbeddingEntry(0), EmbeddingEntry(1) >>,
      << EmbeddingEntry(1), EmbeddingEntry(0) >>,
      << EmbeddingEntry(0), EmbeddingEntry(0) >>,
      << EmbeddingEntry(1) >>,
      << >> }

\* the receivers a new call can go to: none while a call is being answered
WhenQuiet(S) == IF Quiet THEN S ELSE {}

NextAdapter ==
    \/ \E c \in ProviderClasses, m \in AdapterModels : is_model_supported(c, m)
    \/ \E c \in WhenQuiet(ProviderClasses), m \in ChatModels,
          up \in { Response(200), Response(500), Garbled } :
         \E request \in Requests(m) : chat_completion(c, request, up)
    \/ \E c \in WhenQuiet(ProviderClasses), m \in AdapterModels,
          input \in EmbeddingInputs,
          up \in { Response(200), Response(429), ConnectionError, Garbled } :
         \E data \in IF up = Response(200) THEN EmbeddingAnswers ELSE { << >> } :
            provider_create_embeddings(c, m, input, up, data)
    \/ \E request \in Requests(m_claude_3_5_sonnet_20241022) :
         convert_request_to_claude_format(request)
    \/ \E request \in Requests(m_claude_3_5_sonnet_20241022) :
         convert_messages_format(request)
    \/ \E up \in ModelsUpstream : azure_list_models(up)
    \/ returned
    \/ \E c \in WhenQuiet(ProviderClasses) :
         \E m \in StreamModels(c), q \in EventSeqs(c, MaxEvents), e \in Endings :
           chat_completion_stream(c, m, q, e)
    \/ stream_next
    \/ stream_closed

SpecAdapter == InitAdapter /\ [][NextAdapter]_vars

----------------------------------------------------------------------------
(* GET /v1/models *)

\* the list ClaudeProvider.list_models builds
claude_list_models == << "claude-3-5-sonnet", "claude-3-5-haiku", "claude-3-opus" >>

\* the discovery answer as the adapter gets it: a closed client fails
ReachModels(ad, up) ==
    IF Reach(ad, Response(200)).kind = "error" THEN ModelsConnectionError ELSE up

\* the ids of the entries of a usable discovery answer
ModelIds(up) ==
    LET data == IF up.body.has_data THEN up.body.data ELSE << >> IN
    [ i \in 1..Len(data) |-> data[i].id ]

\* adapter.list_models(): the outcome, the ids of the list it returns, and
\* the adapter after the call.
\*   Claude, OpenAI: @async_cache(ttl=300) answers from the entry on the
\*     instance while it is fresh, else calls the method and keeps what it
\*     returns; an exception is not kept. OpenAI turns every failure of
\*     client.models.list() into a ProviderError
\*   Azure: no cache
\*   the classes of the tests return []
ListModels(ad, up, fresh) ==
    CASE ad.cls \in { "ClaudeProvider", "OpenAIProvider" }
           /\ ad.list_models_cache # << >> /\ fresh ->
            [ ad |-> ad, res |-> Value("models"), ids |-> ad.list_models_cache[1] ]
      [] ad.cls = "ClaudeProvider" /\ ~(ad.list_models_cache # << >> /\ fresh) ->
            [ ad |-> [ ad EXCEPT !.list_models_cache = << claude_list_models >> ],
              res |-> Value("models"), ids |-> claude_list_models ]
      [] ad.cls = "OpenAIProvider" /\ ~(ad.list_models_cache # << >> /\ fresh) ->
            IF DiscoveryErrored(ReachModels(ad, up))
            THEN [ ad |-> ad,
                   res |-> Raise("ProviderError", "{} API error", << "OpenAI" >>, "",
                                 IF up.kind = "response" /\ ~Is2xx(up)
                                 THEN up.status ELSE 500,
                                 "openai"),
                   ids |-> << >> ]
            ELSE [ ad |-> [ ad EXCEPT !.list_models_cache = << ModelIds(up) >> ],
                   res |-> Value("models"), ids |-> ModelIds(up) ]
      [] ad.cls = "AzureOpenAIProvider" ->
            LET r == AzureListModels(ReachModels(ad, up)) IN
            [ ad |-> ad, res |-> r.res, ids |-> r.ids ]
      [] OTHER -> [ ad |-> ad, res |-> Value("models"), ids |-> << >> ]

\* the loop of the endpoint without the inner try/except: the first exception
\* of get_provider or list_models ends the listing
RECURSIVE ModelsLoop_Unguarded(_, _, _, _, _)
ModelsLoop_Unguarded(fs, i, ups, fresh, all_models) ==
    IF i > Len(NameOrder) THEN [ fs |-> fs, data |-> all_models, ok |-> TRUE ]
    ELSE IF ListAvailableProviders[NameOrder[i]] # "True"
    THEN ModelsLoop_Unguarded(fs, i + 1, ups, fresh, all_models)
    ELSE CHOOSE r \in
           { IF g.res.kind = "raise"
             THEN [ fs |-> g.fs, data |-> all_models, ok |-> FALSE ]
             ELSE CHOOSE q \in
                    { IF lm.res.kind = "raise"
                      THEN [ fs |-> g.fs, data |-> all_models, ok |-> FALSE ]
                      ELSE ModelsLoop_Unguarded(
                               [ g.fs EXCEPT !.ads[g.res.inst] = lm.ad ], i + 1, ups,
                               fresh, all_models \o lm.ids) :
                        lm \in { ListModels(g.fs.ads[g.res.inst], ups[NameOrder[i]],
                                            NameOrder[i] \in fresh) } } : TRUE :
               g \in { GetProvider(fs, NameOrder[i]) } } : TRUE

\* the loop of the endpoint over the names NameOrder[i..]: a name that
\* list_available_providers() reports True is asked for its adapter and the
\* adapter for its models; an exception of either skips the name
RECURSIVE ModelsLoop(_, _, _, _, _)
ModelsLoop(fs, i, ups, fresh, all_models) ==
    IF i > Len(NameOrder) THEN [ fs |-> fs, data |-> all_models, ok |-> TRUE ]
    ELSE IF ListAvailableProviders[NameOrder[i]] # "True"
    THEN ModelsLoop(fs, i + 1, ups, fresh, all_models)
    ELSE CHOOSE r \in
           { IF g.res.kind = "raise"
             THEN ModelsLoop(g.fs, i + 1, ups, fresh, all_models)
             ELSE CHOOSE q \in
                    { IF lm.res.kind = "raise"
                      THEN ModelsLoop(g.fs, i + 1, ups, fresh, all_models)
                      ELSE ModelsLoop([ g.fs EXCEPT !.ads[g.res.inst] = lm.ad ], i + 1,
                                      ups, fresh, all_models \o lm.ids) :
                        lm \in { ListModels(g.fs.ads[g.res.inst], ups[NameOrder[i]],
                                            NameOrder[i] \in fresh) } } : TRUE :
               g \in { GetProvider(fs, NameOrder[i]) } } : TRUE

\* GET /v1/models
list_models(ups, fresh) ==
    LET r == ModelsLoop(FactoryState, 1, ups, fresh, << >>) IN
    /\ Ready
    /\ Commit(r.fs)
    /\ last' = [ Call("list_models", << >>,
                      IF r.ok THEN Http(200, Return(0))
                      ELSE Http(500, Raise("Exception", "", << >>, "", 0, "")))
                   EXCEPT !.data = r.data, !.ups = ups, !.fresh = fresh ]
    /\ UNCHANGED << config, _providers, http_client >>
    /\ UNCHANGED avars

\* the discovery answers of one listing, per provider name
AllModelsAnswer(up) == [ n \in Names |-> up ]

GoodModels == ModelsAnswer(200, ModelsBody("object", TRUE,
                                           << ModelEntry("gpt-4o"), ModelEntry("dep-1") >>))

ModelsInputs ==
    { AllModelsAnswer(GoodModels),
      AllModelsAnswer(ModelsAnswer(500, ModelsBody("object", FALSE, << >>))),
      AllModelsAnswer(ModelsConnectionError),
      AllModelsAnswer(ModelsAnswer(200, ModelsBody("invalid", FALSE, << >>))),
      [ AllModelsAnswer(GoodModels)
          EXCEPT !["openai"] = ModelsAnswer(200, ModelsBody("object", TRUE,
                                                            << ModelEntry("gpt-4") >>)) ] }

\* the providers whose cached list is still fresh when the listing runs
FreshInputs == { {}, { "claude" }, { "claude", "openai" } }

NextModels ==
    \/ \E ups \in ModelsInputs, fresh \in FreshInputs : list_models(ups, fresh)
    \/ \E n \in Names : get_provider(n)
    \/ \E c \in { "MockProvider", "CompleteProvider", "str" } : register_provider("mock", c)
    \/ close
    \/ deliver

\* the factory behind the models endpoint
SpecModels == Init /\ [][NextModels]_vars

----------------------------------------------------------------------------
(* @async_cache(ttl=300) around list_models *)

ttl == 300

\* `cache_key in cache and current_time - timestamps[cache_key] <= ttl`
CacheHit_Inclusive(ad, current_time) ==
    /\ ad.list_models_cache # << >>
    /\ current_time - ad.list_models_cache_timestamp <= ttl

\* `cache_key in cache and current_time - timestamps[cache_key] < ttl`
CacheHit(ad, current_time) ==
    /\ ad.list_models_cache # << >>
    /\ current_time - ad.list_models_cache_timestamp < ttl

\* wrapper up to `await func(self)`: the cached list on a hit, else the
\* wrapped method starts (OpenAI calls client.models.list(), Claude builds
\* its list without a call)
WrapperBegin(ad, current_time) ==
    IF CacheHit(ad, current_time)
    THEN [ NoListCall EXCEPT !.state = "hit", !.current_time = current_time,
                             !.ids = ad.list_models_cache[1] ]
    ELSE [ NoListCall EXCEPT !.state = "awaiting", !.current_time = current_time,
                             !.upstream_calls =
                                 IF ad.cls = "OpenAIProvider" THEN 1 ELSE 0 ]

\* the end of wrapper with the time of completion kept as the timestamp
WrapperEnd_StampsCompletion(ad, call, up) ==
    LET r == ListModels(ad, up, FALSE) IN
    IF r.res.kind = "raise"
    THEN [ ad |-> ad, call |-> [ call EXCEPT !.state = "raised" ] ]
    ELSE [ ad |-> [ r.ad EXCEPT !.list_models_cache_timestamp = clock ],
           call |-> [ call EXCEPT !.state = "returned", !.ids = r.ids ] ]

\* wrapper from the return of `await func(self)`: an exception gets out and
\* nothing is kept; a result is kept with the current_time the call read
\* when it entered the wrapper
WrapperEnd(ad, call, up) ==
    LET r == ListModels(ad, up, FALSE) IN
    IF r.res.kind = "raise"
    THEN [ ad |-> ad, call |-> [ call EXCEPT !.state = "raised" ] ]
    ELSE [ ad |-> [ r.ad EXCEPT !.list_models_cache_timestamp = call.current_time ],
           call |-> [ call EXCEPT !.state = "returned", !.ids = r.ids ] ]

\* every caller that got an answer has taken it
Settled == \A c \in 1..MaxCalls : calls[c].state \in { "none", "awaiting" }

\* caller c calls adapters[i].list_models()
wrapper_begin(c, i) ==
    /\ Settled
    /\ calls[c].state = "none"
    /\ calls' = [ calls EXCEPT ![c] = [ WrapperBegin(adapters[i], clock) EXCEPT !.inst = i ] ]
    /\ UNCHANGED << fvars, acall, stream, clock, handlers >>

\* the wrapped method of caller c comes back, the upstream having answered up
wrapper_end(c, up) ==
    LET r == WrapperEnd(adapters[calls[c].inst], calls[c], up) IN
    /\ Settled
    /\ calls[c].state = "awaiting"
    /\ adapters' = [ adapters EXCEPT ![calls[c].inst] = r.ad ]
    /\ calls' = [ calls EXCEPT ![c] = r.call ]
    /\ UNCHANGED << config, _providers, _provider_instances, http_client, created, last,
                    acall, stream, clock, handlers >>

\* caller c has its answer
wrapper_done(c) ==
    /\ calls[c].state \in { "hit", "returned", "raised" }
    /\ calls' = [ calls EXCEPT ![c] = NoListCall ]
    /\ UNCHANGED << fvars, acall, stream, clock, handlers >>

\* adapters[i].list_models.clear_cache(adapters[i])
clear_cache(i) ==
    /\ Settled
    /\ adapters[i].list_models_cache # << >>
    /\ adapters' = [ adapters EXCEPT ![i].list_models_cache = << >>,
                                     ![i].list_models_cache_timestamp = 0 ]
    /\ UNCHANGED << config, _providers, _provider_instances, http_client, created, last,
                    acall, stream, cvars >>

\* the values the clock is read at
Times == { 0, 299, 300, 600 }

\* time passes
tick(t) ==
    /\ Settled
    /\ t > clock
    /\ clock' = t
    /\ UNCHANGED << fvars, acall, stream, calls, handlers >>

\* what client.models.list() answers
ListUpstream ==
    { GoodModels,
      ModelsAnswer(200, ModelsBody("object", TRUE, << ModelEntry("gpt-4") >>)),
      ModelsAnswer(500, ModelsBody("object", FALSE, << >>)),
      ModelsConnectionError }

\* two adapters constructed by create_provider: two of one class, or one of each
InitCache ==
    /\ Init
    /\ config = [ providers |-> BaseProviders, model_mapping |-> TestMapping ]

CachedAdapters ==
    { << NewAdapter("OpenAIProvider", E_full), NewAdapter("OpenAIProvider", E_full) >>,
      << NewAdapter("OpenAIProvider", E_full), NewAdapter("ClaudeProvider", E_full) >> }

\* create_provider twice: the adapters the cached calls are made on
construct_adapters(ads) ==
    /\ adapters = << >>
    /\ adapters' = ads
    /\ UNCHANGED << config, _providers, _provider_instances, http_client, created, last,
                    acall, stream, cvars >>

NextCache ==
    \/ \E ads \in CachedAdapters : construct_adapters(ads)
    \/ \E c \in 1..MaxCalls, i \in DOMAIN adapters : wrapper_begin(c, i)
    \/ \E c \in 1..MaxCalls, up \in ListUpstream : wrapper_end(c, up)
    \/ \E c \in 1..MaxCalls : wrapper_done(c)
    \/ \E i \in DOMAIN adapters : clear_cache(i)
    \/ \E t \in Times : tick(t)

\* list_models calls on adapter instances while time passes
SpecCache == InitCache /\ [][NextCache]_vars

----------------------------------------------------------------------------
(* Request handlers sharing the registry *)

\* a request comes in: FastAPI awaits its body and schedules the handler
handler_arrives(h, provider_name) ==
    /\ handlers[h].state = "idle"
    /\ handlers' = [ handlers EXCEPT ![h] =
                       [ state |-> "resolving", name |-> provider_name, inst |-> 0,
                         first |-> _provider_instances[provider_name] = 0 ] ]
    /\ UNCHANGED << fvars, acall, stream, clock, calls >>

\* the handler runs up to its first await: every endpoint is an `async def`
\* on the one event loop and get_provider has no await, so the lookup, the
\* construction and the assignment to _provider_instances are one step
handler_get_provider(h) ==
    LET r == GetProvider(FactoryState, handlers[h].name) IN
    /\ handlers[h].state = "resolving"
    /\ Commit(r.fs)
    /\ handlers' = [ handlers EXCEPT ![h].state =
                                         IF r.res.kind = "return" THEN "serving" ELSE "refused",
                                     ![h].inst =
                                         IF r.res.kind = "return" THEN r.res.inst ELSE 0 ]
    /\ UNCHANGED << config, _providers, http_client, last, acall, stream, clock, calls >>

\* the adapter answered, or the error was answered: the handler is over
handler_returns(h) ==
    /\ handlers[h].state \in { "serving", "refused" }
    /\ handlers' = [ handlers EXCEPT ![h] = NoHandler ]
    /\ UNCHANGED << fvars, acall, stream, clock, calls >>

NextHandlers ==
    \/ \E h \in 1..MaxHandlers, n \in Names : handler_arrives(h, n)
    \/ \E h \in 1..MaxHandlers : handler_get_provider(h)
    \/ \E h \in 1..MaxHandlers : handler_returns(h)

\* request handlers that interleave at their awaits
SpecHandlers == Init /\ [][NextHandlers]_vars

----------------------------------------------------------------------------
(* POST /v1/messages *)

\* the handler without the test of the prefix
CreateClaudeMessage_NoPrefixTest(fs, model, is_stream, up) ==
    LET g == GetProvider(fs, "claude") IN
    IF g.res.kind = "raise"
    THEN [ fs |-> g.fs, res |-> Answer(g.res), served |-> 0 ]
    ELSE IF is_stream
    THEN [ fs |-> g.fs, res |-> Http(200, Return(0)), served |-> g.res.inst ]
    ELSE [ fs |-> g.fs,
           res |-> Answer(ChatCompletion(g.fs.ads[g.res.inst], model, up)),
           served |-> g.res.inst ]

\* create_claude_message: the answer, the factory after the call and the
\* adapter the request was handed to. request.model.startswith("claude") is
\* tested on the name as given; with stream = true the handler answers with
\* the StreamingResponse before the generator runs
CreateClaudeMessage(fs, model, is_stream, up) ==
    IF ~StartsWith(model, s_claude)
    THEN [ fs |-> fs,
           res |-> Http(400, Raise("HTTPException",
                                   "This endpoint only supports Claude models",
                                   << >>, "", 400, "")),
           served |-> 0 ]
    ELSE LET g == GetProvider(fs, "claude") IN
         IF g.res.kind = "raise"
         THEN [ fs |-> g.fs, res |-> Answer(g.res), served |-> 0 ]
         ELSE IF is_stream
         THEN [ fs |-> g.fs, res |-> Http(200, Return(0)), served |-> g.res.inst ]
         ELSE [ fs |-> g.fs,
                res |-> Answer(ChatCompletion(g.fs.ads[g.res.inst], model, up)),
                served |-> g.res.inst ]

\* POST /v1/messages
create_claude_message(model, is_stream, up) ==
    LET r == CreateClaudeMessage(FactoryState, model, is_stream, up) IN
    /\ Ready
    /\ Commit(r.fs)
    /\ last' = [ Call("create_claude_message", model, r.res) EXCEPT !.served = r.served ]
    /\ UNCHANGED << config, _providers, http_client >>
    /\ UNCHANGED avars

\* the models of the requests sent to POST /v1/messages
MessageModels ==
    { m_claude_3_5_sonnet, m_claude_3_5_sonnet_20241022, m_CLAUDE_3_OPUS_20240229,
      m_pre_claude, m_gpt_4o, m_unknown_model }

NextMessages ==
    \/ \E m \in MessageModels, st \in BOOLEAN, up \in { Response(200), Response(500) } :
         create_claude_message(m, st, up)
    \/ \E m \in EndpointModels, up \in { Response(200), Response(500) } :
         create_chat_completion(m, up)
    \/ \E n \in Names : get_provider(n)
    \/ close
    \/ deliver

\* the factory behind the two chat endpoints
SpecMessages == Init /\ [][NextMessages]_vars

----------------------------------------------------------------------------
(* Properties *)

\* C1: for a model that is a key of model_mapping, get_provider_for_model
\* returns the adapter of the mapped provider (here: whenever that provider is
\* registered, enabled and has its api_key and endpoint), whatever
\* auto-detection would pick, and get_supported_models reports the mapped
\* provider for it.
\* Violated: 'gpt-4' mapped to azure raises "Failed to create azure provider",
\* AzureOpenAIProvider leaves chat_completion_stream_fast undefined.
C1_MappedModelGetsMappedAdapter ==
    /\ last.op = "get_provider_for_model" =>
         LET n == config.model_mapping[last.target] IN
         (n # "" /\ _providers[n] # "" /\ config.providers[n] = E_full)
           => /\ last.res.kind = "return"
              /\ adapters[last.res.inst].cls = _providers[n]
    /\ last.op = "get_supported_models" =>
         \A m \in AllModels :
           config.model_mapping[m] # "" => last.models[m] = config.model_mapping[m]

\* C2: for a model with no model_mapping entry that no auto-detection rule
\* matches, get_provider_for_model raises a ProviderError whose message is
\* "No provider configured for model: " followed by exactly that model, the
\* call constructs and caches no adapter, and the chat and embeddings
\* endpoints answer with an error (status 500) whose detail is that message.
C2_NoProviderForModel ==
    /\ [](last.op = "get_provider_for_model"
             /\ config.model_mapping[last.target] = "" /\ AutoDetected[last.target] = ""
           => /\ last.res.kind = "raise"
              /\ last.res.exc = "ProviderError"
              /\ last.res.fmt = "No provider configured for model: {}"
              /\ last.res.arg = last.target)
    /\ [](last.op \in { "create_chat_completion", "create_embeddings" }
             /\ config.model_mapping[last.target] = "" /\ AutoDetected[last.target] = ""
           => /\ last.res.kind = "http"
              /\ last.res.status_code = 500
              /\ last.res.fmt = "No provider configured for model: {}"
              /\ last.res.arg = last.target)
    /\ [][ (last'.op \in { "get_provider_for_model", "create_chat_completion",
                           "create_embeddings" }
              /\ config.model_mapping[last'.target] = ""
              /\ AutoDetected[last'.target] = "")
           => /\ adapters' = adapters
              /\ _provider_instances' = _provider_instances ]_vars

\* C2 happens: with an adapter in the cache, get_provider_for_model of
\* 'unknown-model' has raised
C2_Witness ==
    /\ last.op = "get_provider_for_model"
    /\ last.target = m_unknown_model
    /\ config.model_mapping[m_unknown_model] = ""
    /\ last.res.kind = "raise"
    /\ Len(adapters) > 0

\* C3 as stated: with no mapping entry, the rules in order are: starts with
\* 'claude' -> claude; starts with 'gpt' or 'o1' -> openai; contains
\* 'embedding' and (contains 'ada' or STARTS WITH 'text-embedding') -> openai;
\* else exact match against the embedding allowlist -> azure; else none
\* (read on the lower-cased name).
\* Violated: 'my-text-embedding' is detected as openai.
C3_AsStated ==
    LET claimed(name) ==
          IF StartsWith(name, s_claude) THEN "claude"
          ELSE IF StartsWith(name, s_gpt) \/ StartsWith(name, s_o1) THEN "openai"
          ELSE IF Contains(name, s_embedding)
                  /\ (Contains(name, s_ada) \/ StartsWith(name, s_text_embedding))
          THEN "openai"
          ELSE IF name \in AzureEmbeddingList THEN "azure"
          ELSE ""
    IN
    /\ last.op = "_auto_detect_provider" =>
         last.res.value = claimed(Lower(last.target))
    /\ (last.op = "get_provider_for_model" /\ config.model_mapping[last.target] = "") =>
         /\ claimed(Lower(last.target)) = ""
              <=> last.res.fmt = "No provider configured for model: {}"
         /\ last.res.kind = "return" =>
              adapters[last.res.inst].cls = _providers[claimed(Lower(last.target))]

\* C3 amended: with no mapping entry, the rules apply in order to the
\* lower-cased name: starts with 'claude' -> claude; starts with 'gpt' or 'o1'
\* -> openai; contains 'embedding' and (contains 'ada' or CONTAINS
\* 'text-embedding') -> openai; else exact match against the embedding
\* allowlist -> azure; else none.
C3_AutoDetectRules ==
    LET amended(name) ==
          IF StartsWith(name, s_claude) THEN "claude"
          ELSE IF StartsWith(name, s_gpt) \/ StartsWith(name, s_o1) THEN "openai"
          ELSE IF Contains(name, s_embedding)
                  /\ (Contains(name, s_ada) \/ Contains(name, s_text_embedding))
          THEN "openai"
          ELSE IF name \in AzureEmbeddingList THEN "azure"
          ELSE ""
    IN
    /\ last.op = "_auto_detect_provider" =>
         last.res.value = amended(Lower(last.target))
    /\ (last.op = "get_provider_for_model" /\ config.model_mapping[last.target] = "") =>
         /\ amended(Lower(last.target)) = ""
              <=> last.res.fmt = "No provider configured for model: {}"
         /\ last.res.kind = "return" =>
              adapters[last.res.inst].cls = _providers[amended(Lower(last.target))]

\* C3 happens: 'my-text-embedding', which contains but does not start with
\* 'text-embedding', has been detected as openai
C3_Witness ==
    /\ last.op = "_auto_detect_provider"
    /\ last.target = m_my_text_embedding
    /\ ~StartsWith(Lower(last.target), s_text_embedding)
    /\ last.res.value = "openai"

\* C4: between two close() calls at most one adapter is constructed per
\* provider name, by the first successful get_provider /
\* get_provider_for_model for that name; every call for that name that
\* returns, returns the cached instance, and the cached instance of a name
\* stays the same until close().
C4_OneAdapterPerName ==
    /\ [](\A n \in Names :
            /\ created[n] <= 1
            /\ created[n] = 1 <=> _provider_instances[n] # 0
            /\ \A k \in Names :
                 (k # n /\ _provider_instances[n] # 0)
                   => _provider_instances[k] # _provider_instances[n])
    /\ []((last.op = "get_provider" /\ last.res.kind = "return")
            => last.res.inst = _provider_instances[last.target[1]])
    /\ []((last.op = "get_provider_for_model" /\ last.res.kind = "return")
            => last.res.inst = _provider_instances[ProviderNameFor(last.target)])
    /\ [][ \A n \in Names :
             (_provider_instances[n] # 0 /\ last'.op # "close")
               => _provider_instances'[n] = _provider_instances[n] ]_vars

\* C4 happens: a get_provider returned an adapter older than the newest one,
\* that is the instance cached by an earlier call
C4_Witness ==
    /\ last.op = "get_provider"
    /\ last.res.kind = "return"
    /\ last.res.inst < Len(adapters)
    /\ created[last.target[1]] = 1

\* C5: for a provider whose config has enabled = false (api_key present or
\* not), get_provider raises ProviderError "Provider <name> is disabled",
\* constructs no adapter and caches none, and list_available_providers
\* reports the provider as false.
C5_DisabledProviderRefused ==
    /\ []((last.op = "get_provider"
             /\ config.providers[last.target[1]].shape = "dict"
             /\ config.providers[last.target[1]].enabled = "false")
           => /\ last.res.kind = "raise"
              /\ last.res.exc = "ProviderError"
              /\ last.res.fmt = "Provider {} is disabled"
              /\ last.res.arg = last.target
              /\ _provider_instances[last.target[1]] = 0)
    /\ [](last.op = "list_available_providers"
           => \A n \in Names :
                (_providers[n] # "" /\ config.providers[n].shape = "dict"
                   /\ config.providers[n].enabled = "false")
                  => last.report[n] = "False")
    /\ [][ (last'.op = "get_provider"
              /\ config.providers[last'.target[1]].shape = "dict"
              /\ config.providers[last'.target[1]].enabled = "false")
           => /\ adapters' = adapters
              /\ _provider_instances' = _provider_instances ]_vars

\* C5 happens: get_provider('claude') has been refused for a config with
\* enabled = false and an api_key
C5_Witness ==
    /\ last.op = "get_provider"
    /\ last.target = << "claude" >>
    /\ config.providers["claude"] = E_disabled
    /\ E_disabled.api_key = "set"
    /\ last.res.fmt = "Provider {} is disabled"

\* C6: get_provider(name) for a built-in provider that is not cached and
\* whose configuration is absent (no entry, or a null entry), or lacks an
\* api_key, or (azure) lacks an endpoint, raises a ProviderError and no other
\* exception type, and leaves the instance cache unchanged.
\* Violated: a null entry ({'providers': {'claude': None}}) raises
\* AttributeError.
C6_MissingConfigIsProviderError ==
    (/\ last.op = "get_provider"
     /\ last.target[1] \in { "claude", "openai", "azure" }
     /\ LET e == config.providers[last.target[1]] IN
        \/ e.shape \in { "missing", "null" }
        \/ e.api_key # "set"
        \/ last.target[1] = "azure" /\ e.endpoint # "set")
    => /\ last.res.kind = "raise"
       /\ last.res.exc = "ProviderError"
       /\ _provider_instances[last.target[1]] = 0

\* C7: list_available_providers() maps every registered name to true iff the
\* current config entry of that name has enabled = true and an api_key key,
\* and to false otherwise (no entry, null entry, no 'enabled' key); names
\* that are not registered are not keys; the result follows the configuration
\* as it is at the call, whatever the adapter cache holds.
C7_AvailableFromCurrentConfig ==
    last.op = "list_available_providers" =>
        \A n \in Names :
          /\ _providers[n] = "" <=> last.report[n] = "absent"
          /\ _providers[n] # "" =>
               (last.report[n] = "True"
                  <=> /\ config.providers[n].shape = "dict"
                      /\ config.providers[n].enabled = "true"
                      /\ config.providers[n].api_key # "absent")
          /\ last.report[n] \in { "absent", "True", "False" }

\* C7 happens: claude was enabled and its adapter is in the cache, the
\* configuration then disabled it, and the next listing reports it false
C7_Witness ==
    /\ last.op = "list_available_providers"
    /\ _provider_instances["claude"] # 0
    /\ config.providers["claude"] = E_disabled
    /\ last.report["claude"] = "False"
    /\ last.report["openai"] = "True"

\* C8: health_check() of a Claude, OpenAI or Azure adapter never raises: it
\* returns false when the probe raises or the upstream answers non-2xx and
\* true only on a 2xx answer; health_check_all() never raises, has a bool for
\* every registered name, and reports false for every provider whose adapter
\* could not be obtained or whose probe raised or returned false.
C8_HealthNeverRaises ==
    /\ \A up \in Upstream :
         /\ HealthCheck("AzureOpenAIProvider", up) \in { "True", "False" }
         /\ ~Is2xx(up) => HealthCheck("AzureOpenAIProvider", up) = "False"
    /\ (last.op = "health_check"
          /\ last.target[1] \in { "ClaudeProvider", "OpenAIProvider",
                                  "AzureOpenAIProvider" })
         => /\ last.res.kind = "return"
            /\ last.res.value \in { "True", "False" }
            /\ last.res.value = "True" => Is2xx(last.ups["claude"])
            /\ ~Is2xx(last.ups["claude"]) => last.res.value = "False"
    /\ last.op = "health_check_all" =>
         /\ last.res.kind = "return"
         /\ \A n \in Names :
              /\ _providers[n] = "" <=> last.report[n] = "absent"
              /\ _providers[n] # "" =>
                   /\ last.report[n] \in { "True", "False" }
                   /\ _provider_instances[n] = 0 => last.report[n] = "False"
                   /\ last.report[n] = "True" => Is2xx(last.ups[n])
                   /\ (/\ _provider_instances[n] # 0
                       /\ HealthCheck(adapters[_provider_instances[n]].cls,
                                      Reach(adapters[_provider_instances[n]],
                                            last.ups[n])) # "True")
                        => last.report[n] = "False"

\* C8 happens: one health_check_all reported claude healthy, openai (adapter
\* obtained, upstream 500) unhealthy and azure (no adapter) unhealthy
C8_Witness ==
    /\ last.op = "health_check_all"
    /\ last.report["claude"] = "True"
    /\ _provider_instances["openai"] # 0
    /\ last.ups["openai"] = Response(500)
    /\ last.report["openai"] = "False"
    /\ _provider_instances["azure"] = 0
    /\ last.report["azure"] = "False"

\* C9: close() closes every cached adapter once and the shared HTTP client,
\* and empties the instance cache; it never raises. A close() when the cache
\* is empty and the client closed (a second close) changes nothing, and a
\* close() on a factory without adapters closes no adapter and leaves the
\* state a single close() leaves: cache empty, client closed. No adapter and
\* no client is ever closed twice.
C9_CloseIdempotent ==
    /\ [](last.op = "close"
           => /\ last.res.kind = "return"
              /\ \A n \in Names : _provider_instances[n] = 0
              /\ http_client.is_closed)
    /\ [](/\ http_client.aclose_calls <= 1
          /\ http_client.is_closed <=> http_client.aclose_calls = 1
          /\ \A i \in DOMAIN adapters : adapters[i].close_calls <= 1)
    /\ [][ last'.op = "close" =>
             /\ DOMAIN adapters' = DOMAIN adapters
             /\ \A i \in DOMAIN adapters :
                  IF \E n \in Names : _provider_instances[n] = i
                  THEN adapters'[i].close_calls = adapters[i].close_calls + 1
                  ELSE adapters'[i] = adapters[i]
             /\ http_client.is_closed => http_client' = http_client
             /\ ((\A n \in Names : _provider_instances[n] = 0) /\ http_client.is_closed)
                  => UNCHANGED << config, _providers, _provider_instances, http_client,
                                  adapters, created >> ]_vars

\* C9 happens: close() has closed two cached adapters and the HTTP client
C9_Witness ==
    /\ last.op = "close"
    /\ Len(adapters) = 2
    /\ \A i \in DOMAIN adapters : adapters[i].close_calls = 1
    /\ http_client.aclose_calls = 1
    /\ \A n \in Names : _provider_instances[n] = 0

\* C10: register_provider(name, cls) returns iff cls is a BaseProvider
\* subclass and then registers cls under name, after which
\* create_provider(name, cfg) returns an instance of cls; for any other cls it
\* raises ProviderError and the registry is unchanged.
\* Violated: the MockProvider of test_register_provider is registered, and
\* create_provider('mock', cfg) raises "Failed to create mock provider":
\* the class leaves chat_completion_stream_fast undefined.
C10_RegisteredClassIsConstructed ==
    /\ last.op = "register_provider" =>
         /\ last.res.kind = "return" <=> ClassInfo(last.target[2]).base
         /\ last.res.kind = "return" => _providers[last.target[1]] = last.target[2]
         /\ last.res.kind = "raise" => last.res.exc = "ProviderError"
    /\ (last.op = "create_provider" /\ last.target[1] = "mock"
          /\ _providers["mock"] # "")
         => /\ last.res.kind = "return"
            /\ adapters[last.res.inst].cls = _providers["mock"]

\* C11: for each adapter class, is_model_supported(model) is true iff model
\* is exactly an entry of the class's static list; no substring and no
\* case-insensitive match makes a model supported.
\* Violated: ClaudeProvider.is_model_supported('claude-3-5-sonnet') is true,
\* the name is contained in 'claude-3-5-sonnet-20241022'.
C11_ExactAllowlistMatch ==
    acall.op = "is_model_supported" =>
        (acall.res.value = "True"
           <=> acall.model \in
                 CASE acall.cls = "OpenAIProvider" -> openai_models
                   [] acall.cls = "AzureOpenAIProvider" -> azure_models
                   [] OTHER -> { claude_supported_models[i] :
                                   i \in 1..Len(claude_supported_models) })

\* C12: for each adapter class, chat_completion, chat_completion_stream and
\* create_embeddings called with a model for which is_model_supported is
\* false raise the ProviderError "Model <model> not supported", issue no
\* upstream call and yield no chunk.
\* Violated: ClaudeProvider.chat_completion_stream does not test the model,
\* it yields the first chunk and calls the upstream.
C12_UnsupportedModelRefused ==
    /\ (acall.op \in { "chat_completion", "create_embeddings" }
          /\ ~IsModelSupported(acall.cls, acall.model))
         => /\ acall.res.kind = "raise"
            /\ acall.res.exc = "ProviderError"
            /\ acall.sent = << >>
            /\ acall.op = "chat_completion" =>
                 (acall.res.fmt = "Model {} not supported"
                    /\ acall.res.arg = acall.model)
    /\ (stream.state # "idle" /\ ~IsModelSupported(stream.cls, stream.model))
         => /\ stream.state = "failed"
            /\ stream.error.exc = "ProviderError"
            /\ stream.error.fmt = "Model {} not supported"
            /\ stream.out = << >>
            /\ stream.upstream_calls = 0

\* a transmitted sampling parameter p lies in [lo, hi] and is the requested
\* value r moved to the nearest bound
InRangeAndClamped(lo, hi, p, r) ==
    p.set => /\ r.set
             /\ lo <= p.v /\ p.v <= hi
             /\ p.v = (IF r.v < lo THEN lo ELSE IF r.v > hi THEN hi ELSE r.v)

\* C13: whatever sampling parameters a chat request carries, the request is
\* not rejected for them, and the temperature transmitted upstream is within
\* [0, 2], top_p within [0, 1], each penalty within [-2, 2] (in tenths):
\* an out-of-range value is moved to the nearest bound, an in-range value is
\* transmitted unchanged.
\* Violated: ClaudeProvider.chat_completion transmits request.temperature and
\* request.top_p as they are.
C13_SentParamsClamped ==
    (acall.op = "chat_completion" /\ IsModelSupported(acall.cls, acall.model))
      => /\ Len(acall.sent) = 1
         /\ LET p == acall.sent[1]
                r == acall.req IN
            /\ InRangeAndClamped(0, 20, p.temperature, r.temperature)
            /\ InRangeAndClamped(0, 10, p.top_p, r.top_p)
            /\ InRangeAndClamped(-20, 20, p.frequency_penalty, r.frequency_penalty)
            /\ InRangeAndClamped(-20, 20, p.presence_penalty, r.presence_penalty)

\* the payloads the Anthropic translation produced in the call being answered:
\* the result of _convert_request_to_claude_format, or the arguments
\* ClaudeProvider.chat_completion passed to the Anthropic client
ClaudeTranslated ==
    IF acall.op = "_convert_request_to_claude_format" THEN acall.payload
    ELSE IF acall.op = "chat_completion" /\ acall.cls = "ClaudeProvider" THEN acall.sent
    ELSE << >>

IsNotSystem(m) == m.role # "system"

ClaudeStream == stream.state # "idle" /\ stream.cls = "ClaudeProvider"

\* the upstream events read so far
Consumed == SubSeq(stream.events, 1, stream.pos)

CarriesText(ev) == ev.type = "content_block_delta" /\ ev.text # ""

\* a chunk that carries neither the role nor a finish_reason
IsContentChunk(c) == c.role = "" /\ c.finish_reason = ""

KnownEventTypes == { "content_block_delta", "message_delta", "message_stop" }

\* the chunks yielded so far: role first, then content, all of one id
C15_ChunksSoFar ==
    ClaudeStream =>
        /\ Len(stream.out) >= 1
        /\ stream.out[1].role = "assistant"
        /\ stream.out[1].content = ""
        /\ \A i \in 2..Len(stream.out) : stream.out[i].role = ""
        /\ LET cs == SelectSeq(stream.out, IsContentChunk)
               es == SelectSeq(Consumed, CarriesText) IN
           /\ Len(cs) = Len(es)
           /\ \A i \in 1..Len(cs) : cs[i].content = es[i].text
        /\ \A i \in 1..Len(stream.out) : stream.out[i].id = stream.out[1].id

\* reading an event of a type the adapter does not know
C15_UnknownEventSkipped ==
    (/\ ClaudeStream
     /\ stream.state = "open"
     /\ stream.pos < Len(stream.events)
     /\ stream.events[stream.pos + 1].type \notin KnownEventTypes)
      => /\ stream'.out = stream.out
         /\ stream'.state = "open"
         /\ stream'.pos = stream.pos + 1

\* C15: in an Anthropic-style output stream the first chunk carries
\* delta.role = 'assistant' and no later chunk does, so it precedes every
\* content chunk; the content chunks are, in order, the texts of the upstream
\* content_block_delta events read so far that carry text, one chunk each;
\* reading an event of an unrecognized type yields nothing and leaves the
\* stream open; all chunks of the stream carry the same id.
C15_ClaudeStreamChunks == [] C15_ChunksSoFar /\ [][C15_UnknownEventSkipped]_vars

\* a stream over text 'a', an unknown event, text 'b' has ended
C15_Witness ==
    /\ ClaudeStream
    /\ stream.state = "done"
    /\ stream.events = << Ev("content_block_delta", "a", ""), Ev("ping", "", ""),
                          Ev("content_block_delta", "b", "") >>
    /\ Len(stream.out) = 4
    /\ stream.out[2].content = "a"
    /\ stream.out[3].content = "b"

HasFinishReason(c) == c.finish_reason # ""

\* C16: when the upstream Anthropic stream ends without a message_stop event,
\* the output stream, once over, holds exactly one chunk with a non-null
\* finish_reason: the synthetic 'stop' chunk, which is its last chunk.
\* Violated: a message_delta with a stop_reason has already produced a chunk
\* with finish_reason when the synthetic chunk follows.
C16_OneSyntheticStop ==
    (/\ ClaudeStream
     /\ stream.state = "done"
     /\ \A i \in 1..Len(stream.events) : stream.events[i].type # "message_stop")
      => /\ Len(SelectSeq(stream.out, HasFinishReason)) = 1
         /\ stream.out[Len(stream.out)].finish_reason = "stop"

\* C17: for each of the three adapter classes, when the upstream of a
\* chat_completion_stream has ended and the output stream is over, a chunk
\* with a non-null finish_reason has been yielded, whether or not the
\* upstream delivered a finish event.
\* Violated: OpenAIProvider and AzureOpenAIProvider pass the upstream through
\* and add no terminal chunk.
C17_TerminalChunkForEveryAdapter ==
    (stream.state = "done" /\ stream.cls \in ProviderClasses)
      => /\ Len(stream.out) >= 1
         /\ HasFinishReason(stream.out[Len(stream.out)])

\* C18: create_embeddings of ClaudeProvider raises, for every model and
\* whatever the upstream would answer, a ProviderError with status_code 501
\* and provider 'claude', and issues no upstream call.
C18_ClaudeEmbeddingsUnsupported ==
    (acall.op = "create_embeddings" /\ acall.cls = "ClaudeProvider")
      => /\ acall.res.kind = "raise"
         /\ acall.res.exc = "ProviderError"
         /\ acall.res.status_code = 501
         /\ acall.res.provider = "claude"
         /\ acall.sent = << >>

\* embeddings have been asked of ClaudeProvider for a model it does not list
C18_Witness ==
    /\ acall.op = "create_embeddings"
    /\ acall.cls = "ClaudeProvider"
    /\ acall.model = m_text_embedding_3_small
    /\ acall.res.status_code = 501

\* C19: AzureOpenAIProvider.list_models never raises: when the discovery
\* call errors (connection failure, non-success status, unusable body) it
\* returns the fallback list gpt-4o, gpt-4, gpt-35-turbo; on success it
\* returns one ModelInfo per entry of the upstream data, in order.
\* Violated: only httpx.HTTPError is caught; a 2xx answer whose body is not
\* JSON, not an object, or holds an entry without 'id' makes it raise.
C19_AzureListModelsNeverFails ==
    (acall.op = "list_models" /\ acall.cls = "AzureOpenAIProvider")
      => LET up == acall.up[1] IN
         /\ acall.res.kind = "return"
         /\ DiscoveryErrored(up) => acall.ids = azure_fallback_models
         /\ ~DiscoveryErrored(up) =>
              LET data == IF up.body.has_data THEN up.body.data ELSE << >> IN
              /\ Len(acall.ids) = Len(data)
              /\ \A i \in 1..Len(data) : acall.ids[i] = data[i].id

\* what the provider name n is to contribute to a listing run in the current
\* state: the ids of adapter.list_models() when list_available_providers()
\* reports the name enabled and both get_provider and list_models return,
\* nothing otherwise
Contribution(n, ups, fresh) ==
    IF ListAvailableProviders[n] # "True" THEN << >>
    ELSE LET g == GetProvider(FactoryState, n) IN
         IF g.res.kind = "raise" THEN << >>
         ELSE LET lm == ListModels(g.fs.ads[g.res.inst], ups[n], n \in fresh) IN
              IF lm.res.kind = "raise" THEN << >> ELSE lm.ids

RECURSIVE Concatenation(_, _, _)
Concatenation(i, ups, fresh) ==
    IF i > Len(NameOrder) THEN << >>
    ELSE Contribution(NameOrder[i], ups, fresh) \o Concatenation(i + 1, ups, fresh)

C20_Listing ==
    (last.op = "idle" /\ last'.op = "list_models")
      => /\ last'.res.status_code = 200
         /\ last'.data = Concatenation(1, last'.ups, last'.fresh)

\* C20: GET /v1/models answers 200 with the concatenation, in the order of the
\* registry, of the list_models() of every provider reported enabled, and
\* with no model of a provider that is not; a provider whose construction or
\* whose list_models raises contributes no model and the listing still
\* answers with the models of the others.
C20_ListingOfEnabledProviders == [][C20_Listing]_vars

\* a listing in which the list_models of openai raised and claude contributed
C20_Witness ==
    /\ last.op = "list_models"
    /\ last.res.status_code = 200
    /\ ListAvailableProviders["claude"] = "True"
    /\ ListAvailableProviders["openai"] = "True"
    /\ _provider_instances["openai"] # 0
    /\ last.ups["openai"].kind = "error"
    /\ "openai" \notin last.fresh
    /\ last.data = claude_list_models

\* a request to POST /v1/messages is being answered
C21_Messages == last.op = "idle" /\ last'.op = "create_claude_message"

C21_Step ==
    C21_Messages =>
        /\ ~StartsWith(last'.target, s_claude) =>
             /\ last'.res.status_code = 400
             /\ last'.served = 0
             /\ _provider_instances' = _provider_instances
             /\ adapters' = adapters
        /\ last'.served # 0 =>
             /\ last'.served = _provider_instances'["claude"]
             /\ adapters'[last'.served].cls = _providers["claude"]
             /\ _provider_instances["claude"] # 0 =>
                  last'.served = _provider_instances["claude"]

\* the canonical chat endpoint, when the model resolves to claude, uses the
\* instance the registry holds for claude
C21_Canonical ==
    (last.op = "create_chat_completion" /\ last.served # 0
       /\ ProviderNameFor(last.target) = "claude")
      => last.served = _provider_instances["claude"]

\* C21: POST /v1/messages answers 400 to every request whose model does not
\* start with 'claude', without resolving a provider, constructing an adapter
\* or calling upstream; a request it accepts and serves is handed to the
\* adapter the registry holds for 'claude', the one already held when there is
\* one, which is the instance POST /v1/chat/completions uses for a model that
\* resolves to claude.
C21_MessagesEndpoint == [] C21_Canonical /\ [][C21_Step]_vars

\* a request for a claude model has been served by the adapter the registry
\* holds for claude, next to an adapter held for openai
C21_Witness ==
    /\ last.op = "create_claude_message"
    /\ last.target = m_claude_3_5_sonnet
    /\ last.served # 0
    /\ last.served = _provider_instances["claude"]
    /\ last.res.status_code = 200
    /\ created["claude"] = 1
    /\ _provider_instances["openai"] # 0

\* the ProviderError an adapter of class cls is to raise for a failed call
IsProviderErrorOf(cls, e, status) ==
    /\ e.kind = "raise"
    /\ e.exc = "ProviderError"
    /\ e.provider = ProviderTag(cls)
    /\ e.status_code = status

\* C22: when the upstream call of chat_completion, chat_completion_stream or
\* create_embeddings fails (non-success status, failed connection, unusable
\* response), the adapter raises a ProviderError with its provider name and
\* the upstream status, or 500 when there is none; it returns no result for
\* the failed call and no other exception gets out.
\* Violated: ClaudeProvider.chat_completion_stream catches APIStatusError
\* only, AzureOpenAIProvider catches httpx.HTTPError only.
C22_UpstreamFailureIsProviderError ==
    /\ (acall.op \in { "chat_completion", "create_embeddings" }
          /\ Len(acall.sent) = 1 /\ ~Is2xx(acall.up[1]))
         => IsProviderErrorOf(acall.cls, acall.res,
                              IF acall.up[1].kind = "response"
                              THEN acall.up[1].status ELSE 500)
    /\ (stream.state = "failed" /\ stream.upstream_calls > 0)
         => IsProviderErrorOf(stream.cls, stream.error, 500)
    /\ (stream.state = "done" /\ stream.ending # "eof")
         => stream.pos < Len(stream.events)

\* caller c enters the wrapper in this step
Begins(c) == calls[c].state = "none" /\ calls'[c].state # "none"

\* the wrapped method of caller c comes back in this step
Ends(c) == calls[c].state = "awaiting" /\ calls'[c].state # "awaiting"

\* a call entering the wrapper is answered from the entry of its own
\* instance when that entry is less than ttl old, and runs the wrapped
\* method otherwise
C23_Begin ==
    \A c \in 1..MaxCalls :
        Begins(c) =>
            LET ad  == adapters[calls'[c].inst]
                age == clock - ad.list_models_cache_timestamp
            IN  /\ adapters' = adapters
                /\ (ad.list_models_cache # << >> /\ age < 300) =>
                       /\ calls'[c].state = "hit"
                       /\ calls'[c].ids = ad.list_models_cache[1]
                       /\ calls'[c].upstream_calls = 0
                /\ (ad.list_models_cache = << >> \/ age >= 300) =>
                       /\ calls'[c].state = "awaiting"
                       /\ ad.cls = "OpenAIProvider" => calls'[c].upstream_calls = 1

\* a failing call keeps nothing, a successful one keeps what it returns,
\* with the time it was made at, on its own instance only
C23_End ==
    \A c \in 1..MaxCalls :
        Ends(c) =>
            LET i == calls[c].inst IN
            /\ calls'[c].state \in { "raised", "returned" }
            /\ calls'[c].state = "raised" => adapters' = adapters
            /\ calls'[c].state = "returned" =>
                   /\ adapters'[i].list_models_cache = << calls'[c].ids >>
                   /\ adapters'[i].list_models_cache_timestamp = calls[c].current_time
                   /\ \A j \in DOMAIN adapters : j # i => adapters'[j] = adapters[j]

\* an entry goes away only by clear_cache, which leaves the other instances
\* alone; the entry of an instance changes in no other step than these
C23_Clear ==
    \A i \in DOMAIN adapters :
        (i \in DOMAIN adapters' /\ adapters'[i] # adapters[i]) =>
            \/ \E c \in 1..MaxCalls : Ends(c) /\ calls[c].inst = i
            \/ /\ adapters'[i].list_models_cache = << >>
               /\ calls' = calls
               /\ \A j \in DOMAIN adapters : j # i => adapters'[j] = adapters[j]

CacheEntry(ad) == << ad.list_models_cache, ad.list_models_cache_timestamp >>

\* the entry of an instance is written by the end of a call on that instance
\* only, value and timestamp together: the list this call returns and the
\* time this call read when it entered the wrapper, whatever the entry was
\* before; else it is cleared
C28_StoredAsPair ==
    \A i \in DOMAIN adapters :
        (i \in DOMAIN adapters' /\ CacheEntry(adapters'[i]) # CacheEntry(adapters[i])) =>
            \/ \E c \in 1..MaxCalls :
                   /\ Ends(c) /\ calls[c].inst = i
                   /\ calls'[c].state = "returned"
                   /\ CacheEntry(adapters'[i]) = << << calls'[c].ids >>, calls[c].current_time >>
                   /\ calls'[c].current_time = calls[c].current_time
            \/ CacheEntry(adapters'[i]) = << << >>, 0 >>

\* the time a call keeps is the time it was made at, and every call that
\* comes back with a list writes the entry
C28_StartTime ==
    \A c \in 1..MaxCalls :
        /\ Begins(c) => calls'[c].current_time = clock
        /\ (Ends(c) /\ calls'[c].state = "returned") =>
               CacheEntry(adapters'[calls[c].inst]) = << << calls'[c].ids >>, calls[c].current_time >>

\* a list answered from the cache belongs to an entry less than ttl old
C28_ServedFresh ==
    \A c \in 1..MaxCalls :
        calls[c].state = "hit" =>
            /\ calls[c].ids = adapters[calls[c].inst].list_models_cache[1]
            /\ calls[c].current_time - adapters[calls[c].inst].list_models_cache_timestamp < 300
            /\ clock - adapters[calls[c].inst].list_models_cache_timestamp < 300

\* C28: under any interleaving of list_models calls on one adapter instance,
\* the cached value and its timestamp are stored together by one call, the
\* timestamp being the time that call started at, so that no list is served
\* from the cache 300 s or more after the start of the call that produced
\* it; misses in flight together each run the method and the one that
\* finishes last overwrites the entry.
C28_PairFromOneCall ==
    /\ [](C28_ServedFresh)
    /\ [][C28_StoredAsPair /\ C28_StartTime]_vars

\* two misses were in flight on one OpenAI adapter, each with its own
\* upstream call; one has come back later than it started and its list and
\* start time are the entry, the other is still to come back and overwrite
C28_Witness ==
    \E c, d \in 1..MaxCalls :
        /\ c # d
        /\ calls[c].inst = calls[d].inst
        /\ calls[c].state = "returned" /\ calls[c].upstream_calls = 1
        /\ calls[d].state = "awaiting" /\ calls[d].upstream_calls = 1
        /\ calls[c].current_time < calls[d].current_time
        /\ calls[d].current_time < clock
        /\ CacheEntry(adapters[calls[c].inst]) = << << calls[c].ids >>, calls[c].current_time >>

\* handler h comes out of get_provider in this step
Resolves(h) == handlers[h].state = "resolving" /\ handlers'[h].state # "resolving"

\* the first handler to resolve a name constructs its adapter and caches
\* it; every later one is handed the cached instance and constructs nothing
C24_Step ==
    \A h \in 1..MaxHandlers :
        (Resolves(h) /\ handlers'[h].state = "serving") =>
            LET n == handlers[h].name IN
            /\ handlers'[h].inst = _provider_instances'[n]
            /\ IF _provider_instances[n] = 0
               THEN /\ Len(adapters') = Len(adapters) + 1
                    /\ created'[n] = 1
               ELSE /\ adapters' = adapters
                    /\ _provider_instances' = _provider_instances

\* C24: when several request handlers call get_provider for the same
\* provider name that is not cached yet, one adapter is constructed, every
\* caller receives this instance, and the instance cache never holds or hands
\* out two instances for one name.
C24_OneAdapterUnderConcurrency ==
    /\ [](/\ \A n \in Names : created[n] <= 1
          /\ Len(adapters) = Cardinality({ n \in Names : _provider_instances[n] # 0 })
          /\ \A h \in 1..MaxHandlers :
                 handlers[h].state = "serving" =>
                     handlers[h].inst = _provider_instances[handlers[h].name]
          /\ \A g, h \in 1..MaxHandlers :
                 (handlers[g].state = "serving" /\ handlers[h].state = "serving"
                    /\ handlers[g].name = handlers[h].name)
                   => handlers[g].inst = handlers[h].inst)
    /\ [][C24_Step]_vars

\* two handlers that both came in before the name was cached are served by
\* the same adapter, the only one constructed
C24_Witness ==
    \E g, h \in 1..MaxHandlers :
        /\ g # h
        /\ handlers[g].state = "serving" /\ handlers[h].state = "serving"
        /\ handlers[g].first /\ handlers[h].first
        /\ handlers[g].name = handlers[h].name
        /\ handlers[g].inst = handlers[h].inst
        /\ Len(adapters) = 1

\* the number of texts of an input
NumTexts(input) == IF input.scalar THEN 1 ELSE Len(input.texts)

\* C25: the EmbeddingResponse that create_embeddings returns for an input of
\* N texts has exactly N data entries, with the index fields 0..N-1 in
\* order; for a scalar input it has one entry with index 0.
\* Violated: the adapters copy the data of the upstream answer as it is,
\* whatever its length and its index fields.
C25_OneEntryPerText ==
    (acall.op = "create_embeddings" /\ acall.res.kind = "return") =>
        /\ Len(acall.data) = NumTexts(acall.input)
        /\ \A i \in 1..Len(acall.data) : acall.data[i].index = i - 1

\* C26: in the output stream of ClaudeProvider.chat_completion_stream, for
\* every upstream event sequence, a chunk with a non-null finish_reason ends
\* the stream: no chunk is yielded after it, so the stream holds at most one
\* such chunk.
\* Violated: after the chunk of a message_delta with a stop_reason the loop
\* goes on, and after the chunk of message_stop the loop is left and the
\* final chunk with finish_reason 'stop' is yielded all the same.
C26_FinishReasonEndsStream ==
    ClaudeStream =>
        /\ \A i \in 1..Len(stream.out) :
               HasFinishReason(stream.out[i]) => i = Len(stream.out)
        /\ Len(SelectSeq(stream.out, HasFinishReason)) <= 1

\* C27: for every registered provider name p and every configuration,
\* get_provider(p) returns an adapter only if list_available_providers()
\* reports p as true.
\* Violated: get_provider reads a missing 'enabled' as True and asks for no
\* api_key, list_available_providers reads a missing 'enabled' as False and
\* asks for the key 'api_key'.
C27_ObtainedOnlyIfAvailable ==
    (last.op = "get_provider" /\ last.res.kind = "return")
      => ListAvailableProviders[last.target[1]] = "True"

\* close() leaves the instance cache empty and the HTTP client closed
C29_CloseEmpties ==
    last'.op = "close" =>
        /\ \A n \in Names : _provider_instances'[n] = 0
        /\ http_client'.is_closed

\* nothing opens the HTTP client again
C29_StaysClosed == http_client.is_closed => http_client'.is_closed

\* a get_provider that returns for a name the cache does not hold, the
\* client being closed, returns an adapter that did not exist before, which
\* holds the factory's HTTP client
C29_NewAdapterOnClosedClient ==
    (/\ last'.op = "get_provider" /\ last'.res.kind = "return"
     /\ http_client.is_closed
     /\ _provider_instances[last'.target[1]] = 0)
      => /\ last'.res.inst = Len(adapters) + 1
         /\ Len(adapters') = Len(adapters) + 1
         /\ \A i \in DOMAIN adapters : adapters'[i] = adapters[i]
         /\ adapters'[last'.res.inst].http_client = "shared"
         /\ adapters'[last'.res.inst].close_calls = 0
         /\ _provider_instances'[last'.target[1]] = last'.res.inst
         /\ http_client'.is_closed

\* C29: after close() the instance cache is empty and the shared HTTP client
\* stays closed for the rest of the factory's life; a later
\* get_provider(name) constructs a new adapter, distinct from the instance
\* returned before close(), and this adapter holds the same, already closed,
\* HTTP client.
C29_AfterClose ==
    [][C29_CloseEmpties /\ C29_StaysClosed /\ C29_NewAdapterOnClosedClient]_vars

\* get_provider returned a second adapter of the class of the first, closed
\* one, after close() closed the HTTP client
C29_Witness ==
    /\ last.op = "get_provider" /\ last.res.kind = "return"
    /\ http_client.is_closed
    /\ last.res.inst = 2
    /\ adapters[1].cls = adapters[2].cls
    /\ adapters[1].close_calls = 1
    /\ adapters[2].close_calls = 0
    /\ adapters[2].http_client = "shared"

IsSystem(m) == m.role = "system"

\* what the separation of the system messages produced in the call being
\* answered: the Anthropic translations, and the pair of _convert_messages_format
SystemSeparated ==
    IF acall.op = "_convert_messages_format" THEN acall.payload ELSE ClaudeTranslated

====
